---- MODULE Spec2Model ----
(***************************************************************************)
(* A model of the columnar storage engine: the size-classed buffer pool    *)
(* (SmartBufferPool), the bit-packing codec with its page writer and page  *)
(* readers, the streaming column writer and the keyed table format.        *)
(*                                                                         *)
(* Several specifications share the module's variables; each one starts    *)
(* the variables it does not use at a fixed value and leaves them          *)
(* unchanged:                                                              *)
(*   SpecPool    threads sharing one SmartBufferPool                       *)
(*   SpecPages   PageEncoder writing a column file, a page reader on it   *)
(*   SpecStream  producers feeding one BitpackStreamWriter                 *)
(*   SpecTable   the table Encoder, its export and Decoder queries         *)
(*   SpecColumn  a StreamColumn with its encoder and Categorical index     *)
(*   SpecBits    a BitWriter and a BitReader on the bytes it wrote         *)
(*   SpecAppend  one SmartPage filled with append_slice                    *)
(*   SpecDoc     DocWriter's document file searched by DocReader           *)
(*   SpecSlice   one FileSlice read and sought                             *)
(*   SpecSlicer  SectionedSlices of one FileSlicer sharing its file        *)
(*   SpecFooter  the footer file's encoder and decoder                     *)
(*   SpecLegacy  the earlier BufferPool and its PoolPages                  *)
(* SpecPoolFair is SpecPool with every running thread scheduled fairly.    *)
(***************************************************************************)
EXTENDS Integers, Sequences, FiniteSets, TLC

VARIABLES
    pool,       \* SmartEntry: buckets, bytes_in_use, hit_count, miss_count (+ next buffer id)
    max_bytes,  \* SmartEntry.max_bytes, fixed at construction
    held,       \* per thread: the SmartPages it owns, in acquisition order
    tpc,        \* per thread: position inside get / trim
    tl,         \* per thread: locals of the running call
    lastGet,    \* per thread: the request and the page of the last completed get
    ops,        \* number of calls started so far (bounds the run)
    ty,         \* the element type T of the column
    enc,        \* PageEncoder: input, width, values_per_page, page_size
    file,       \* the bytes of the column file (or of the exported table)
    emitted,    \* the pages PageEncoder returned: the values taken and the page's length
    phase,      \* position of the scenario driving the codec (or the table)
    dec,        \* page decoder: kind, predicate, source position, current_stream
    out,        \* the items the reader returned so far, in call order
    tamper,     \* what was done to the file between writing and reading
    sw,         \* BitpackState: temp file and its cursor, spill buffer, min, max, count
    lock,       \* the Mutex around BitpackState: the producer holding it, 0 when free
    accepted,   \* the values of this cycle's encode_value calls, in lock order
    cycle,      \* number of begin_stream calls so far
    tenc,       \* table Encoder: offset, vec of OffsetHeaders, bytes of its temp file
    written,    \* the (id, payload) records handed to the table Encoder
    rows,       \* table Decoder.rows
    kr,         \* KeyReader: the ids queried, entries still to serve, results so far
    col,        \* StreamColumn: row_pos, whether it has an index, the results of its calls
    cenc,       \* the column's StreamingEncoder: the values it has taken, its end_stream
    cat,        \* the column's Categorical index: table, the outcome of flush
    rt,         \* a BitWriter / BitReader round trip: type, width, values, writer, reader
    sp,         \* one SmartPage and its bytes: page, buf, the calls made on it, the last call
    doc,        \* a token document: tokens, the bytes DocWriter wrote, the searches made
    fsl,        \* a FileSlice: the inner source and its cursor, the slice's bounds and position
    sl,         \* a FileSlicer's file, the cursor of the shared handle, and its slices
    ff,         \* a footer file: the encoder, the bytes written, the columns read back
    lp          \* the legacy BufferPool: buckets, bytes_in_pool, the pages held

poolVars == <<pool, max_bytes, held, tpc, tl, lastGet, ops>>

codecVars == <<ty, enc, file, emitted, phase, dec, out, tamper>>

streamVars == <<sw, lock, accepted, cycle>>

tableVars == <<tenc, written, rows, kr>>

columnVars == <<col, cenc, cat>>

bitVars == <<rt, sp>>

fileVars == <<doc, fsl, sl, ff, lp>>

\* What the actions of each specification leave alone.
notPool == <<codecVars, streamVars, tableVars, columnVars, bitVars, fileVars>>

notPages == <<streamVars, tableVars, columnVars, bitVars, fileVars>>

notStream == <<tableVars, columnVars, bitVars, fileVars>>

notTable == <<poolVars, ty, enc, emitted, dec, tamper, streamVars, columnVars, bitVars,
              fileVars>>

notColumn == <<poolVars, ty, enc, emitted, phase, dec, out, tamper, streamVars,
               written, rows, kr, bitVars, fileVars>>

notBits == <<poolVars, codecVars, streamVars, tableVars, columnVars, sp, fileVars>>

notAppend == <<max_bytes, held, tpc, tl, lastGet, ops, codecVars, streamVars, tableVars,
               columnVars, rt, fileVars>>

vars == <<pool, max_bytes, held, tpc, tl, lastGet, ops,
          ty, enc, file, emitted, phase, dec, out, tamper,
          sw, lock, accepted, cycle, tenc, written, rows, kr, col, cenc, cat, rt, sp,
          doc, fsl, sl, ff, lp>>

(***************************************************************************)
(* Integer helpers.  Machine words are modelled by their value; the        *)
(* bitwise operations the code uses are computed bit by bit.               *)
(***************************************************************************)
Min2(a, b) == IF a <= b THEN a ELSE b

Max2(a, b) == IF a >= b THEN a ELSE b

RECURSIVE BitOr(_, _)
BitOr(a, b) ==
    IF a = 0 THEN b
    ELSE IF b = 0 THEN a
    ELSE Max2(a % 2, b % 2) + 2 * BitOr(a \div 2, b \div 2)

RECURSIVE BitAnd(_, _)
BitAnd(a, b) ==
    IF a = 0 \/ b = 0 THEN 0
    ELSE (a % 2) * (b % 2) + 2 * BitAnd(a \div 2, b \div 2)

\* The model's words stay below 2^30; a shift or a mask of 30 bits or more
\* is computed without forming the power of two.
Shr(n, k) == IF k >= 30 THEN 0 ELSE n \div (2 ^ k)

Shl(n, k) == IF n = 0 THEN 0 ELSE n * (2 ^ k)

\* n & ((1 << k) - 1), and n & u64::MAX for k = 64
LowBits(n, k) == IF k >= 30 THEN n ELSE n % (2 ^ k)

RECURSIVE TrailingZeros(_)
TrailingZeros(n) == IF n % 2 = 1 THEN 0 ELSE 1 + TrailingZeros(n \div 2)

RECURSIVE SumCaps(_)
SumCaps(s) == IF s = <<>> THEN 0 ELSE Head(s).cap + SumCaps(Tail(s))

RECURSIVE Concat(_)
Concat(ss) == IF ss = <<>> THEN <<>> ELSE Head(ss) \o Concat(Tail(ss))

SeqRange(s) == {s[i] : i \in 1 .. Len(s)}

Last(s) == s[Len(s)]

RemoveAt(s, k) == SubSeq(s, 1, k - 1) \o SubSeq(s, k + 1, Len(s))

(***************************************************************************)
(* Buffer pool: src/indexing/columnar/src/buffers/smart_pool.rs            *)
(***************************************************************************)
MIN_BUCKET == 256

MAX_BUCKET == 1048576

\* AtomicUsize arithmetic wraps.  The word is scaled to 30 bits so that the
\* wrapped values stay inside the model checker's integers.
UsizeModulus == 2 ^ 30

WrapUsize(x) == x % UsizeModulus

pow2_ceil(n) ==
    IF n <= 1 THEN 1
    ELSE LET n0 == n - 1
             n1 == BitOr(n0, Shr(n0, 1))
             n2 == BitOr(n1, Shr(n1, 2))
             n3 == BitOr(n2, Shr(n2, 4))
             n4 == BitOr(n3, Shr(n3, 8))
             n5 == BitOr(n4, Shr(n4, 16))
         IN  n5 + 1

MAX_INDEX == TrailingZeros(MAX_BUCKET) - TrailingZeros(MIN_BUCKET)

bucket_index(cap) ==
    LET cap_log2 == TrailingZeros(cap)
        index == Max2(cap_log2 - TrailingZeros(MIN_BUCKET), 0)
    IN  Min2(index, MAX_INDEX)

\* let want = pow2_ceil(min_capacity).max(MIN_BUCKET)
WantFor(min_capacity) == Max2(pow2_ceil(min_capacity), MIN_BUCKET)

\* SmartBufferPool::new
NewPool ==
    [buckets |-> [i \in 0 .. MAX_INDEX |-> <<>>],
     bytes_in_use |-> 0, hit_count |-> 0, miss_count |-> 0, next_id |-> 1]

bytes_in_pool(p) == p.bytes_in_use

\* One iteration of trim's loop: lock bucket i, drain it, fetch_sub every
\* drained buffer's capacity.
TrimBucket(p, i) ==
    [p EXCEPT !.buckets[i] = <<>>,
              !.bytes_in_use = WrapUsize(p.bytes_in_use - SumCaps(p.buckets[i]))]

RECURSIVE TrimFrom(_, _)
TrimFrom(p, i) == IF i > MAX_INDEX THEN p ELSE TrimFrom(TrimBucket(p, i), i + 1)

\* SmartBufferPool::trim, run to completion
Trim(p) == TrimFrom(p, 0)

\* get's hit path can be taken: the rounded capacity has a bucket and that
\* bucket's free list is not empty.
CanPop(p, want) == want <= MAX_BUCKET /\ p.buckets[bucket_index(want)] # <<>>

\* bin.pop() under the bucket's lock, and the hit counter.
PopBucketKeep(p, idx) == [p EXCEPT !.hit_count = p.hit_count + 1]

PopBucket(p, idx) ==
    [p EXCEPT !.buckets[idx] = SubSeq(p.buckets[idx], 1, Len(p.buckets[idx]) - 1),
              !.hit_count = p.hit_count + 1]

\* The page get returns on a hit: the popped buffer, cleared.
PoppedPage(p, want) ==
    LET bin == p.buckets[bucket_index(want)]
        buf == bin[Len(bin)]
    IN  [id |-> buf.id, cap |-> buf.cap, len |-> 0, cap_bucket |-> want]

\* A miss path that forgets the miss counter.
AllocMissUncounted(p, want) ==
    [p EXCEPT !.bytes_in_use = WrapUsize(p.bytes_in_use + want),
              !.next_id = p.next_id + 1]

\* get's miss path: count the miss, Vec::with_capacity(want), fetch_add(want).
AllocMiss(p, want) ==
    [p EXCEPT !.miss_count = p.miss_count + 1,
              !.bytes_in_use = WrapUsize(p.bytes_in_use + want),
              !.next_id = p.next_id + 1]

AllocPage(p, want) == [id |-> p.next_id, cap |-> want, len |-> 0, cap_bucket |-> want]

\* A drop that loses the buffer instead of filing it.
DropIntoLost(p, page) == p

\* Drop for SmartPage: an oversized page is freed and its capacity is
\* subtracted; any other page is cleared and pushed on the bucket of cap_bucket.
DropInto(p, page) ==
    IF page.cap_bucket > MAX_BUCKET
    THEN [p EXCEPT !.bytes_in_use = WrapUsize(p.bytes_in_use - page.cap)]
    ELSE [p EXCEPT !.buckets[bucket_index(page.cap_bucket)] =
                       Append(@, [id |-> page.id, cap |-> page.cap])]

\* A SmartPage that is not there (the None of an Option<SmartPage>).
NoPage == [id |-> 0, cap |-> 0, len |-> 0, cap_bucket |-> 0]

\* Vec::reserve's amortized growth: at least the needed capacity, at least
\* double the current one.
GrownCap(cap, needed) == IF needed <= cap THEN cap ELSE Max2(2 * cap, needed)

\* SmartPage::resize_uninit
resize_uninit(page, new_len) ==
    IF new_len > page.len
    THEN [page EXCEPT !.cap = GrownCap(page.cap, new_len), !.len = new_len]
    ELSE [page EXCEPT !.len = new_len]

\* An append that extends the Vec whatever its capacity, as
\* Vec::extend_from_slice does on its own.
append_slice_grow(page, buf, data) ==
    [err |-> "", buf |-> buf \o data,
     page |-> [page EXCEPT !.cap = GrownCap(page.cap, Len(buf) + Len(data)),
                           !.len = Len(buf) + Len(data)]]

\* SmartPage::append_slice on a page whose Vec holds buf: the length is
\* added with checked_add, compared with the capacity, and only then is the
\* Vec extended (extend_from_slice reserves what the new length needs).
append_slice(page, buf, data) ==
    LET new_len == Len(buf) + Len(data)
    IN  IF new_len >= UsizeModulus \/ new_len > page.cap
        THEN [err |-> "CapacityError", buf |-> buf, page |-> page]
        ELSE [err |-> "", buf |-> buf \o data,
              page |-> [page EXCEPT !.cap = GrownCap(page.cap, new_len),
                                    !.len = new_len]]

\* SmartPage::clear
clear(page, buf) == [buf |-> <<>>, page |-> [page EXCEPT !.len = 0]]

\* SmartBufferPool::get, run to completion by one thread: the pool afterwards
\* and the page returned.
GetTrimmed(p, mb) == IF bytes_in_pool(p) > mb THEN Trim(p) ELSE p

GetPool(p, mb, n) ==
    LET q == GetTrimmed(p, mb)
        want == WantFor(n)
    IN  IF CanPop(q, want) THEN PopBucket(q, bucket_index(want)) ELSE AllocMiss(q, want)

GetPage(p, mb, n) ==
    LET q == GetTrimmed(p, mb)
        want == WantFor(n)
    IN  IF CanPop(q, want) THEN PoppedPage(q, want) ELSE AllocPage(q, want)

(***************************************************************************)
(* Bit codec: src/indexing/columnar/src/encoding/bitpack/v1/common.rs,     *)
(* src/columnar/src/encoding/bitpack/v1/writer.rs and reader.rs.           *)
(* A value of an integer type T is modelled by its mathematical value, a   *)
(* byte by a number in 0 .. 255.                                           *)
(***************************************************************************)
Types == {"u8", "i8", "i16"}

BITS(t) ==
    IF t = "i16" THEN 16 ELSE IF t = "u32" THEN 32 ELSE IF t = "u64" THEN 64 ELSE 8

Signed(t) == t \in {"i8", "i16"}

T_MIN(t) == IF Signed(t) THEN 0 - 2 ^ (BITS(t) - 1) ELSE 0

T_MAX(t) == IF Signed(t) THEN 2 ^ (BITS(t) - 1) - 1 ELSE 2 ^ BITS(t) - 1

\* u64::to_le_bytes and friends: k bytes, least significant first.
RECURSIVE ToLE(_, _)
ToLE(n, k) == IF k = 0 THEN <<>> ELSE <<n % 256>> \o ToLE(n \div 256, k - 1)

RECURSIVE FromLE(_)
FromLE(bytes) == IF bytes = <<>> THEN 0 ELSE Head(bytes) + 256 * FromLE(Tail(bytes))

\* T::to_le_bytes / T::from_le_bytes (two's complement for the signed types)
to_le_bytes(t, v) == ToLE(IF v < 0 THEN v + 2 ^ BITS(t) ELSE v, BITS(t) \div 8)

from_le_bytes(t, bytes) ==
    LET raw == FromLE(bytes)
    IN  IF Signed(t) /\ raw >= 2 ^ (BITS(t) - 1) THEN raw - 2 ^ BITS(t) ELSE raw

\* BitEncodable::encode: identity for unsigned types; for signed types the
\* width-aware ZigZag (n << 1) ^ (n >> (bits - 1)), which is 2n for n >= 0
\* and the complement of 2n, -2n - 1, for n < 0.
encode(t, v) == IF Signed(t) THEN (IF v >= 0 THEN 2 * v ELSE (0 - 2 * v) - 1) ELSE v

\* BitEncodable::decode: mask to BITS, then (u >> 1) ^ -(u & 1) for signed.
decode(t, payload) ==
    LET u == LowBits(payload, BITS(t))
    IN  IF Signed(t)
        THEN (IF u % 2 = 0 THEN u \div 2 ELSE (0 - (u \div 2)) - 1)
        ELSE u

\* 64 - leading_zeros(n)
RECURSIVE BitLen(_)
BitLen(n) == IF n = 0 THEN 0 ELSE 1 + BitLen(n \div 2)

bit_width_from_value(t, value) ==
    LET code == encode(t, value) IN IF code = 0 THEN 1 ELSE BitLen(code)

clamp_width_to_type(t, width) == Min2(width, BITS(t))

\* BitWriterRef over a Vec<u8>: [out, bits, bit_count, width].
\* overflowed records that write_value executed encoded >>= 64, a shift by
\* the full word width.
NewBitWriter(t, vec, width) ==
    [out |-> vec, bits |-> 0, bit_count |-> 0, width |-> clamp_width_to_type(t, width),
     overflowed |-> FALSE]

\* while self.bit_count >= 8 { write_all(&[self.bits as u8]); bits >>= 8; bit_count -= 8 }
RECURSIVE DrainBytes(_)
DrainBytes(w) ==
    IF w.bit_count >= 8
    THEN DrainBytes([w EXCEPT !.out = Append(w.out, w.bits % 256),
                              !.bits = Shr(w.bits, 8),
                              !.bit_count = w.bit_count - 8])
    ELSE w

\* The loop of write_value: encoded is what is left of the code,
\* bits_to_write the number of bits still to stage.
RECURSIVE WriteBits(_, _, _)
WriteBits(w, encoded, bits_to_write) ==
    IF bits_to_write = 0 THEN w
    ELSE LET space == 64 - w.bit_count
             chunk_size == Min2(bits_to_write, space)
             staged == [w EXCEPT !.bits = BitOr(w.bits,
                                      Shl(LowBits(encoded, chunk_size), w.bit_count)),
                                 !.bit_count = w.bit_count + chunk_size,
                                 !.overflowed = w.overflowed \/ chunk_size >= 64]
             \* a shift by 64 is a shift by 64 % 64 = 0 where it does not panic
             rest == IF chunk_size >= 64 THEN encoded ELSE Shr(encoded, chunk_size)
         IN  WriteBits(DrainBytes(staged), rest, bits_to_write - chunk_size)

write_value(t, w, value) == WriteBits(w, encode(t, value), w.width)

\* BitWriterRef::flush: the whole bytes, then the last partial byte zero-padded.
flush(w) ==
    LET d == DrainBytes(w)
    IN  IF d.bit_count > 0
        THEN [d EXCEPT !.out = Append(d.out, d.bits % 256), !.bits = 0, !.bit_count = 0]
        ELSE d

RECURSIVE write_all_values(_, _, _)
write_all_values(t, w, values) ==
    IF values = <<>> THEN w
    ELSE write_all_values(t, write_value(t, w, Head(values)), Tail(values))

\* BitReader over a byte sequence: [data, pos, bits, bit_count]; pos counts
\* the bytes consumed (the Cursor and the 512-byte read buffer together).
NewBitReader(data) == [data |-> data, pos |-> 0, bits |-> 0, bit_count |-> 0]

\* The slow path's loop of read_bits: result and bits_read are the locals.
RECURSIVE ReadLoop(_, _, _, _)
ReadLoop(r, width, result, bits_read) ==
    IF bits_read >= width THEN [r |-> r, err |-> "", val |-> result]
    ELSE IF r.pos = Len(r.data) THEN [r |-> r, err |-> "UnexpectedEof", val |-> 0]
    ELSE LET next_byte == r.data[r.pos + 1]
             bits_needed == width - bits_read
             bits_from_byte == Min2(bits_needed, 8)
             res2 == BitOr(result, Shl(next_byte % (2 ^ bits_from_byte), bits_read))
             r2 == IF bits_from_byte < 8
                   THEN [r EXCEPT !.pos = r.pos + 1,
                                  !.bit_count = 8 - bits_from_byte,
                                  !.bits = Shr(next_byte, bits_from_byte)]
                   ELSE [r EXCEPT !.pos = r.pos + 1]
         IN  ReadLoop(r2, width, res2, bits_read + bits_from_byte)

\* BitReader::read_bits
read_bits(r, width) ==
    IF width = 0 THEN [r |-> r, err |-> "", val |-> 0]
    ELSE IF width > 64 THEN [r |-> r, err |-> "InvalidInput", val |-> 0]
    ELSE IF r.bit_count >= width
    THEN [r |-> [r EXCEPT !.bits = Shr(r.bits, width), !.bit_count = r.bit_count - width],
          err |-> "", val |-> r.bits % (2 ^ width)]
    ELSE ReadLoop([r EXCEPT !.bits = 0, !.bit_count = 0], width, r.bits, r.bit_count)

\* remaining: None
NoCount == 0 - 1

\* BitStream::with_count(reader, width, count) and BitStream::next; a result
\* is [kind |-> "val" | "err" | "none", v, e].
BitStream_with_count(data, width, count) ==
    [reader |-> NewBitReader(data), width |-> width, remaining |-> count]

\* BitStream::new(reader, width): values are read until EOF.
BitStream_new(data, width) ==
    [reader |-> NewBitReader(data), width |-> width, remaining |-> NoCount]

ResVal(v) == [kind |-> "val", v |-> v, e |-> ""]

ResErr(e) == [kind |-> "err", v |-> 0, e |-> e]

ResNone == [kind |-> "none", v |-> 0, e |-> ""]

BitStream_next(t, s) ==
    IF s.remaining = 0 THEN [s |-> s, res |-> ResNone]
    ELSE LET got == read_bits(s.reader, s.width)
             s2 == [s EXCEPT !.reader = got.r,
                             !.remaining = IF @ = NoCount THEN NoCount ELSE @ - 1]
         IN  IF got.err = "" THEN [s |-> s2, res |-> ResVal(decode(t, got.val))]
             ELSE IF got.err = "UnexpectedEof" THEN [s |-> s2, res |-> ResNone]
             ELSE [s |-> s2, res |-> ResErr(got.err)]

\* Iterator::collect on a BitStream: the results up to the first None.
RECURSIVE Collect(_, _)
Collect(t, s) ==
    LET n == BitStream_next(t, s)
    IN  IF n.res.kind = "none" THEN <<>> ELSE <<n.res>> \o Collect(t, n.s)

\* writer.rs encode_values: the width of the largest value, and the count as
\* a u32 followed by the packed values.
encode_values(t, values) ==
    IF values = <<>> THEN [width |-> 0, buffer |-> <<>>]
    ELSE LET max_value == CHOOSE v \in SeqRange(values) : \A u \in SeqRange(values) : u <= v
             width == bit_width_from_value(t, max_value)
             w == flush(write_all_values(t, NewBitWriter(t, ToLE(Len(values), 4), width),
                                         values))
         IN  [width |-> width, buffer |-> w.out]

\* reader.rs decode_values: the count, then a counted BitStream collected
\* into a Result; slicing the count out of fewer than 4 bytes panics.
decode_values(t, reader, width) ==
    IF Len(reader) < 4 THEN [err |-> "panic", vals |-> <<>>]
    ELSE LET count == FromLE(SubSeq(reader, 1, 4))
             items == Collect(t, BitStream_with_count(SubSeq(reader, 5, Len(reader)),
                                                      width, count))
             bad == {i \in 1 .. Len(items) : items[i].kind = "err"}
         IN  IF bad # {}
             THEN [err |-> items[CHOOSE i \in bad : \A j \in bad : i <= j].e, vals |-> <<>>]
             ELSE [err |-> "", vals |-> [i \in 1 .. Len(items) |-> items[i].v]]

(***************************************************************************)
(* Pages: common.rs (constants), page_writer.rs (PageEncoder) and          *)
(* page_reader.rs (PageHeader, PageDecoder, PooledPageDecoder).            *)
(***************************************************************************)
PAGE_MAGIC_BITPACK == <<66, 73, 84, 80, 75, 49>>

PAGE_VERSION == 1

PAGE_HEADER_SIZE == 64

\* The default page size, 64 KiB in the source, is scaled down to the header
\* plus PagePayloadBytes bytes so that a few values fill a page.
PagePayloadBytes == 2

PAGE_DEFAULT_SIZE == PAGE_HEADER_SIZE + PagePayloadBytes

\* A PageEncoder::new that divides the payload's bytes, not its bits, by the
\* width.
PageEncoder_new_bytes(input, width, page_size) ==
    [input |-> input, width |-> width, page_size |-> page_size,
     values_per_page |->
        IF width > 0
        THEN Max2(page_size - PAGE_HEADER_SIZE, 0) \div width
        ELSE PAGE_DEFAULT_SIZE]

\* PageEncoder::new: the record of the encoder's fields.
PageEncoder_new(input, width, page_size) ==
    [input |-> input, width |-> width, page_size |-> page_size,
     values_per_page |->
        IF width > 0
        THEN (Max2(page_size - PAGE_HEADER_SIZE, 0) * 8) \div width
        ELSE PAGE_DEFAULT_SIZE]

\* The 64 header bytes PageEncoder::next assembles (lines 84-103).
HeaderBytes(t, width, count, min, max, data_bytes) ==
    LET fields == PAGE_MAGIC_BITPACK \o <<PAGE_VERSION, BITS(t) \div 8, width>>
                  \o ToLE(count, 8) \o to_le_bytes(t, min) \o to_le_bytes(t, max)
                  \o ToLE(data_bytes, 8)
    IN  fields \o [i \in 1 .. PAGE_HEADER_SIZE - Len(fields) |-> 0]

\* PageEncoder::next against pool p with ceiling mb: the encoder and the pool
\* afterwards and, when some is TRUE, the page returned, its bytes and the
\* values it took from the input.
PageEncoder_next(t, e, p, mb) ==
    IF e.input = <<>>
    THEN [some |-> FALSE, e |-> e, p |-> p, page |-> NoPage, bytes |-> <<>>, vals |-> <<>>]
    ELSE LET got == resize_uninit(GetPage(p, mb, e.page_size), PAGE_HEADER_SIZE)
             taken == SubSeq(e.input, 1, Min2(e.values_per_page, Len(e.input)))
             blank == [i \in 1 .. PAGE_HEADER_SIZE |-> 0]
             writer == flush(write_all_values(t, NewBitWriter(t, blank, e.width), taken))
             seen == SeqRange(taken)
             min == CHOOSE x \in seen \cup {T_MAX(t)} : \A y \in seen \cup {T_MAX(t)} : x <= y
             max == CHOOSE x \in seen \cup {T_MIN(t)} : \A y \in seen \cup {T_MIN(t)} : x >= y
             data_bytes == Len(writer.out) - PAGE_HEADER_SIZE
             header == HeaderBytes(t, e.width, Len(taken), min, max, data_bytes)
         IN  [some |-> TRUE,
              e |-> [e EXCEPT !.input = SubSeq(e.input, Len(taken) + 1, Len(e.input))],
              p |-> GetPool(p, mb, e.page_size),
              page |-> resize_uninit(got, Len(writer.out)),
              bytes |-> header \o SubSeq(writer.out, PAGE_HEADER_SIZE + 1, Len(writer.out)),
              vals |-> taken]

\* The header checks of PageHeader::read_from on the 64 bytes hb.
HeaderFaultNone(t, hb) == ""

HeaderFault(t, hb) ==
    IF SubSeq(hb, 1, 6) # PAGE_MAGIC_BITPACK THEN "InvalidData"
    ELSE IF hb[7] # PAGE_VERSION THEN "InvalidData"
    ELSE IF hb[8] * 8 # BITS(t) THEN "InvalidData"
    ELSE ""

\* A header reader that reports every short read as corruption.
PageHeader_read_strict(t, src, pos) ==
    [pos |-> Len(src), err |-> "InvalidData", min |-> 0, max |-> 0,
     count |-> 0, bit_width |-> 0, data_bytes |-> 0]

\* PageHeader::read_from on source src at position pos.
PageHeader_read_from(t, src, pos) ==
    IF Len(src) - pos < PAGE_HEADER_SIZE
    THEN [pos |-> Len(src), err |-> "UnexpectedEof", min |-> 0, max |-> 0,
          count |-> 0, bit_width |-> 0, data_bytes |-> 0]
    ELSE LET hb == SubSeq(src, pos + 1, pos + PAGE_HEADER_SIZE)
             type_width == BITS(t) \div 8
         IN  IF HeaderFault(t, hb) # ""
             THEN [pos |-> pos + PAGE_HEADER_SIZE, err |-> HeaderFault(t, hb), min |-> 0,
                   max |-> 0, count |-> 0, bit_width |-> 0, data_bytes |-> 0]
             ELSE [pos |-> pos + PAGE_HEADER_SIZE, err |-> "",
                   min |-> from_le_bytes(t, SubSeq(hb, 18, 17 + type_width)),
                   max |-> from_le_bytes(t, SubSeq(hb, 18 + type_width, 17 + 2 * type_width)),
                   count |-> FromLE(SubSeq(hb, 10, 17)),
                   bit_width |-> hb[9],
                   data_bytes |-> FromLE(SubSeq(hb, 18 + 2 * type_width, 25 + 2 * type_width))]

\* A decoder is [kind, pred, pos, cur, evals]: pos is the position of
\* source_reader, cur the Option current_stream together with the pool page
\* behind its Cursor.  A predicate is a range [lo, hi] that a header satisfies
\* when lo <= min and max <= hi; evals records the calls of the predicate, as
\* the source position of the header each call was given.
NoStream == [some |-> FALSE, s |-> BitStream_with_count(<<>>, 0, 0), page |-> NoPage]

NewDecoder(kind, pred) ==
    [kind |-> kind, pred |-> pred, pos |-> 0, cur |-> NoStream, evals |-> <<>>]

\* A predicate that keeps every page.
AcceptsAll(pred, h) == TRUE

Accepts(pred, h) == pred.lo <= h.min /\ h.max <= pred.hi

\* The branch that keeps a page (PageDecoder::next lines 112-120,
\* PooledPageDecoder::next lines 205-213): pool.get, resize_uninit, read_exact.
LoadPage(d, src, p, mb, h) ==
    LET n == h.data_bytes
        buffer == resize_uninit(GetPage(p, mb, n), n)
        p2 == GetPool(p, mb, n)
    IN  IF Len(src) - h.pos < n
        THEN [err |-> "UnexpectedEof", p |-> DropInto(p2, buffer),
              d |-> [d EXCEPT !.pos = Len(src)]]
        ELSE [err |-> "", p |-> p2,
              d |-> [d EXCEPT !.pos = h.pos + n,
                              !.cur = [some |-> TRUE, page |-> buffer,
                                       s |-> BitStream_with_count(
                                                 SubSeq(src, h.pos + 1, h.pos + n),
                                                 h.bit_width, h.count)]]]

\* PageDecoder::next: the decoder and the pool afterwards and the item returned.
RECURSIVE PageDecoder_next(_, _, _, _, _)
PageDecoder_next(t, d, src, p, mb) ==
    LET n == BitStream_next(t, d.cur.s)
    IN  IF d.cur.some /\ n.res.kind # "none"
        THEN [d |-> [d EXCEPT !.cur.s = n.s], p |-> p, res |-> n.res]
        ELSE LET p1 == IF d.cur.some THEN DropInto(p, d.cur.page) ELSE p
                 d1 == [d EXCEPT !.cur = NoStream]
                 h == PageHeader_read_from(t, src, d.pos)
             IN  IF h.err = "UnexpectedEof"
                 THEN [d |-> [d1 EXCEPT !.pos = h.pos], p |-> p1, res |-> ResNone]
                 ELSE IF h.err # ""
                 THEN [d |-> [d1 EXCEPT !.pos = h.pos], p |-> p1, res |-> ResErr(h.err)]
                 ELSE LET ld == LoadPage(d1, src, p1, mb, h)
                      IN  IF ld.err # ""
                          THEN [d |-> ld.d, p |-> ld.p, res |-> ResErr(ld.err)]
                          ELSE PageDecoder_next(t, ld.d, src, ld.p, mb)

\* PooledPageDecoder::next: as above, with the predicate; a rejected page is
\* skipped by io::copy over take(data_bytes), which stops without an error
\* when the source ends early.
RECURSIVE PooledPageDecoder_next(_, _, _, _, _)
PooledPageDecoder_next(t, d, src, p, mb) ==
    LET n == BitStream_next(t, d.cur.s)
    IN  IF d.cur.some /\ n.res.kind # "none"
        THEN [d |-> [d EXCEPT !.cur.s = n.s], p |-> p, res |-> n.res]
        ELSE LET p1 == IF d.cur.some THEN DropInto(p, d.cur.page) ELSE p
                 d1 == [d EXCEPT !.cur = NoStream]
                 h == PageHeader_read_from(t, src, d.pos)
             IN  IF h.err = "UnexpectedEof"
                 THEN [d |-> [d1 EXCEPT !.pos = h.pos], p |-> p1, res |-> ResNone]
                 ELSE IF h.err # ""
                 THEN [d |-> [d1 EXCEPT !.pos = h.pos], p |-> p1, res |-> ResErr(h.err)]
                 ELSE LET d2 == [d1 EXCEPT !.evals = Append(@, d.pos)]
                      IN  IF Accepts(d.pred, h)
                          THEN LET ld == LoadPage(d2, src, p1, mb, h)
                               IN  IF ld.err # ""
                                   THEN [d |-> ld.d, p |-> ld.p, res |-> ResErr(ld.err)]
                                   ELSE PooledPageDecoder_next(t, ld.d, src, ld.p, mb)
                          ELSE PooledPageDecoder_next(t,
                                   [d2 EXCEPT !.pos = Min2(h.pos + h.data_bytes, Len(src))],
                                   src, p1, mb)

Decoder_next(t, d, src, p, mb) ==
    IF d.kind = "PageDecoder" THEN PageDecoder_next(t, d, src, p, mb)
    ELSE PooledPageDecoder_next(t, d, src, p, mb)

\* A decoder driven until it returns None (or for at most fuel calls): the
\* items it returned, in order.
RECURSIVE DecodeAll(_, _, _, _, _, _)
DecodeAll(t, d, src, p, mb, fuel) ==
    LET r == Decoder_next(t, d, src, p, mb)
    IN  IF fuel = 0 \/ r.res.kind = "none" THEN <<>>
        ELSE <<r.res>> \o DecodeAll(t, r.d, src, r.p, mb, fuel - 1)

(***************************************************************************)
(* SpecPool: threads sharing one pool.  A get is a sequence of atomic      *)
(* steps (the ceiling test, one step per bucket of a triggered trim, the   *)
(* pop under the bucket's lock, the allocation); a page drop and a         *)
(* resize_uninit are one step each.                                        *)
(***************************************************************************)
MaxOps == 3

ThreadOrder == <<1, 2>>

Threads == SeqRange(ThreadOrder)

ReqSizes == {300, 2000, 2 * MAX_BUCKET}

ResizeLens == {100, 4096, 3 * MAX_BUCKET}

MaxBytesChoices == {MIN_BUCKET, 1024, 8 * 1024 * 1024}

NoGet == [n |-> 0, page |-> NoPage]

NoLocals == [n |-> 0, want |-> 0, i |-> 0]

NoTamper == [kind |-> "none", page |-> 0, at |-> 0]

\* The codec variables of a run that has no column.
CodecUnused ==
    /\ ty = "u8"
    /\ enc = PageEncoder_new(<<>>, 0, 0)
    /\ file = <<>>
    /\ emitted = <<>>
    /\ phase = "unused"
    /\ dec = NewDecoder("none", [lo |-> 0, hi |-> 0])
    /\ out = <<>>
    /\ tamper = NoTamper

\* The stream-writer variables of a run that has no BitpackStreamWriter.
StreamUnused ==
    /\ sw = [tmp |-> <<>>, tmp_pos |-> 0, buffer |-> <<>>, page |-> NoPage,
             min |-> 0, max |-> 0, count |-> 0]
    /\ lock = 0
    /\ accepted = <<>>
    /\ cycle = 0

\* No KeyReader has been built.
NoKeyReader == [open |-> FALSE, query |-> <<>>, entries |-> <<>>, results |-> <<>>]

\* The table variables of a run that has no table.
TableUnused ==
    /\ tenc = [offset |-> 0, vec |-> <<>>, tmp |-> <<>>]
    /\ written = {}
    /\ rows = 0
    /\ kr = NoKeyReader

\* The column variables of a run that has no StreamColumn.
ColumnUnused ==
    /\ col = [row_pos |-> 0, index |-> FALSE, closed |-> FALSE, results |-> <<>>]
    /\ cenc = [rows |-> <<>>, ended |-> "no"]
    /\ cat = [table |-> <<>>, flushed |-> "no"]

\* The round-trip variable of a run that has no bare BitWriter.
BitsUnused ==
    rt = [t |-> "u8", width |-> 0, vals |-> <<>>, checks |-> FALSE, stage |-> "unused",
          count |-> 0, writer |-> NewBitWriter("u8", <<>>, 0),
          reader |-> NewBitReader(<<>>), got |-> <<>>,
          stream |-> BitStream_new(<<>>, 0), all |-> <<>>, ended |-> FALSE]

\* No call has been made on a page.
NoCall == [op |-> "none", data |-> <<>>, err |-> ""]

\* The page variable of a run that has no page of its own.
PageUnused == sp = [page |-> NoPage, buf |-> <<>>, calls |-> 0, last |-> NoCall]

\* The variables of the file formats, in a run that uses none of them.
NoSearch == [query |-> <<>>, err |-> "", found |-> FALSE]

NoDoc == [tokens |-> <<>>, bytes |-> <<>>, written |-> FALSE, calls |-> 0, last |-> NoSearch]

DocUnused == doc = NoDoc

SliceUnused == fsl = <<>>

SlicerUnused == sl = <<>>

NoFooterFile ==
    [columns |-> <<>>, current_offset |-> 0, bytes |-> <<>>, closed |-> FALSE,
     writes |-> <<>>, opened |-> FALSE, footer |-> <<>>, calls |-> 0,
     last |-> [op |-> "none", id |-> 0, err |-> "", data |-> <<>>]]

FooterUnused == ff = NoFooterFile

LegacyUnused == lp = <<>>

FilesUnused ==
    DocUnused /\ SliceUnused /\ SlicerUnused /\ FooterUnused /\ LegacyUnused

\* The pool threads of a run in which only the codec calls the pool.
ThreadsUnused ==
    /\ held = [t \in Threads |-> <<>>]
    /\ tpc = [t \in Threads |-> "idle"]
    /\ tl = [t \in Threads |-> NoLocals]
    /\ lastGet = [t \in Threads |-> NoGet]
    /\ ops = 0

InitPool ==
    /\ pool = NewPool
    /\ max_bytes \in MaxBytesChoices
    /\ held = [t \in Threads |-> <<>>]
    /\ tpc = [t \in Threads |-> "idle"]
    /\ tl = [t \in Threads |-> NoLocals]
    /\ lastGet = [t \in Threads |-> NoGet]
    /\ ops = 0
    /\ CodecUnused
    /\ StreamUnused
    /\ TableUnused
    /\ ColumnUnused
    /\ BitsUnused
    /\ PageUnused
    /\ FilesUnused

\* A get that waits, when the pool is over its ceiling, for a page to be
\* released instead of trimming.
GetStartBlocking(t, n) ==
    /\ tpc[t] = "idle"
    /\ ops < MaxOps
    /\ ops' = ops + 1
    /\ tl' = [tl EXCEPT ![t] = [n |-> n, want |-> WantFor(n), i |-> 0]]
    /\ tpc' = [tpc EXCEPT ![t] =
                  IF bytes_in_pool(pool) > max_bytes THEN "get_wait" ELSE "get_pop"]
    /\ UNCHANGED <<pool, max_bytes, held, lastGet>>
    /\ UNCHANGED notPool

\* get, lines 50-55: the ceiling test and the rounding of the request.
GetStart(t, n) ==
    /\ tpc[t] = "idle"
    /\ ops < MaxOps
    /\ ops' = ops + 1
    /\ tl' = [tl EXCEPT ![t] = [n |-> n, want |-> WantFor(n), i |-> 0]]
    /\ tpc' = [tpc EXCEPT ![t] =
                  IF bytes_in_pool(pool) > max_bytes THEN "get_trim" ELSE "get_pop"]
    /\ UNCHANGED <<pool, max_bytes, held, lastGet>>
    /\ UNCHANGED notPool

\* trim called by a thread on its own.
TrimStart(t) ==
    /\ tpc[t] = "idle"
    /\ ops < MaxOps
    /\ ops' = ops + 1
    /\ tl' = [tl EXCEPT ![t] = NoLocals]
    /\ tpc' = [tpc EXCEPT ![t] = "trim"]
    /\ UNCHANGED <<pool, max_bytes, held, lastGet>>
    /\ UNCHANGED notPool

\* One bucket of a running trim (inside get, or called directly).
TrimStep(t) ==
    /\ tpc[t] \in {"get_trim", "trim"}
    /\ pool' = TrimBucket(pool, tl[t].i)
    /\ IF tl[t].i = MAX_INDEX
       THEN /\ tpc' = [tpc EXCEPT ![t] = IF tpc[t] = "get_trim" THEN "get_pop" ELSE "idle"]
            /\ tl' = [tl EXCEPT ![t].i = 0]
       ELSE /\ tl' = [tl EXCEPT ![t].i = tl[t].i + 1]
            /\ tpc' = tpc
    /\ UNCHANGED <<max_bytes, held, lastGet, ops>>
    /\ UNCHANGED notPool

\* get, lines 56-69: lock the bucket and pop; a hit returns the page.
GetPop(t) ==
    /\ tpc[t] = "get_pop"
    /\ IF CanPop(pool, tl[t].want)
       THEN LET page == PoppedPage(pool, tl[t].want)
            IN  /\ pool' = PopBucket(pool, bucket_index(tl[t].want))
                /\ held' = [held EXCEPT ![t] = Append(@, page)]
                /\ lastGet' = [lastGet EXCEPT ![t] = [n |-> tl[t].n, page |-> page]]
                /\ tpc' = [tpc EXCEPT ![t] = "idle"]
                /\ tl' = [tl EXCEPT ![t] = NoLocals]
       ELSE /\ tpc' = [tpc EXCEPT ![t] = "get_alloc"]
            /\ UNCHANGED <<pool, held, lastGet, tl>>
    /\ UNCHANGED <<max_bytes, ops>>
    /\ UNCHANGED notPool

\* get, lines 71-78: the miss path.
GetAlloc(t) ==
    /\ tpc[t] = "get_alloc"
    /\ LET page == AllocPage(pool, tl[t].want)
       IN  /\ pool' = AllocMiss(pool, tl[t].want)
           /\ held' = [held EXCEPT ![t] = Append(@, page)]
           /\ lastGet' = [lastGet EXCEPT ![t] = [n |-> tl[t].n, page |-> page]]
    /\ tpc' = [tpc EXCEPT ![t] = "idle"]
    /\ tl' = [tl EXCEPT ![t] = NoLocals]
    /\ UNCHANGED <<max_bytes, ops>>
    /\ UNCHANGED notPool

\* A thread drops its k-th page.
DropPage(t, k) ==
    /\ tpc[t] = "idle"
    /\ k \in 1 .. Len(held[t])
    /\ pool' = DropInto(pool, held[t][k])
    /\ held' = [held EXCEPT ![t] = RemoveAt(@, k)]
    /\ UNCHANGED <<max_bytes, tpc, tl, lastGet, ops>>
    /\ UNCHANGED notPool

\* A thread resizes its k-th page.
ResizePage(t, k, new_len) ==
    /\ tpc[t] = "idle"
    /\ ops < MaxOps
    /\ k \in 1 .. Len(held[t])
    /\ ops' = ops + 1
    /\ held' = [held EXCEPT ![t][k] = resize_uninit(@, new_len)]
    /\ UNCHANGED <<pool, max_bytes, tpc, tl, lastGet>>
    /\ UNCHANGED notPool

NextPool ==
    \/ \E t \in Threads, n \in ReqSizes : GetStart(t, n)
    \/ \E t \in Threads : TrimStart(t)
    \/ \E t \in Threads : TrimStep(t)
    \/ \E t \in Threads : GetPop(t)
    \/ \E t \in Threads : GetAlloc(t)
    \/ \E t \in Threads, k \in 1 .. MaxOps : DropPage(t, k)
    \/ \E t \in Threads, k \in 1 .. MaxOps, l \in ResizeLens : ResizePage(t, k, l)

SpecPool == InitPool /\ [][NextPool]_vars

\* A thread inside get or trim keeps running: each of its steps takes a
\* bucket's mutex for the length of that step only, or takes none, and the
\* scheduler does not starve a runnable thread.
FairThread(t) ==
    /\ WF_vars(TrimStep(t))
    /\ WF_vars(GetPop(t))
    /\ WF_vars(GetAlloc(t))

SpecPoolFair == SpecPool /\ \A t \in Threads : FairThread(t)

(***************************************************************************)
(* SpecPages: a column of type ty is written page by page with             *)
(* PageEncoder, the file is optionally damaged (one header byte            *)
(* overwritten, the bit-width byte of a header set beyond 64, or the file  *)
(* cut short), and a PageDecoder or PooledPageDecoder is then driven call  *)
(* by call.                                                                *)
(***************************************************************************)
MaxInput == 3

MaxPages == 3

MaxCalls == 5

BoundedSeq(S, n) == UNION {[1 .. k -> S] : k \in 0 .. n}

ValuesOf(t) == IF Signed(t) THEN {T_MIN(t), 0 - 2, 1} ELSE {0, 2, T_MAX(t)}

\* The widths a caller passes for an input: every code fits the width the
\* writer uses; a width above the type's is a request the codec clamps.
Fits(t, input, width) ==
    \A v \in SeqRange(input) : encode(t, v) < 2 ^ clamp_width_to_type(t, width)

WidthsFor(t, input) == {w \in {0, 2, BITS(t), BITS(t) + 1} : Fits(t, input, w)}

PageSizes == {PAGE_HEADER_SIZE + 1, PAGE_DEFAULT_SIZE}

PredChoices(t) ==
    {[lo |-> T_MIN(t), hi |-> T_MAX(t)], [lo |-> 1, hi |-> T_MAX(t)],
     [lo |-> T_MIN(t), hi |-> 1], [lo |-> T_MAX(t), hi |-> T_MIN(t)]}

\* The readers a run opens: a PageDecoder (which has no predicate; the field
\* holds the range of the whole type), or a PooledPageDecoder with a predicate.
ReaderChoices(t) ==
    {NewDecoder("PageDecoder", [lo |-> T_MIN(t), hi |-> T_MAX(t)])}
    \cup {NewDecoder("PooledPageDecoder", pred) : pred \in PredChoices(t)}

\* SmartBufferPool::new(4 * 1024), the pool of BitpackStreamWriter::default.
DefaultMaxBytes == 4 * 1024

\* Offset in the file of the k-th emitted page.
RECURSIVE PageStart(_)
PageStart(k) == IF k <= 1 THEN 0 ELSE PageStart(k - 1) + emitted[k - 1].size

InitPages ==
    /\ pool = NewPool
    /\ max_bytes = DefaultMaxBytes
    /\ ThreadsUnused
    /\ ty \in Types
    /\ \E input \in BoundedSeq(ValuesOf(ty), MaxInput) :
         \E width \in WidthsFor(ty, input), page_size \in PageSizes :
            enc = PageEncoder_new(input, width, page_size)
    /\ file = <<>>
    /\ emitted = <<>>
    /\ phase = "encode"
    /\ dec = NewDecoder("none", [lo |-> 0, hi |-> 0])
    /\ out = <<>>
    /\ tamper = NoTamper
    /\ StreamUnused
    /\ TableUnused
    /\ ColumnUnused
    /\ BitsUnused
    /\ PageUnused
    /\ FilesUnused

\* PageEncoder::next returns a page; the caller writes it to the file and
\* drops it.
EmitPage ==
    LET r == PageEncoder_next(ty, enc, pool, max_bytes)
    IN  /\ phase = "encode"
        /\ Len(emitted) < MaxPages
        /\ r.some
        /\ enc' = r.e
        /\ pool' = DropInto(r.p, r.page)
        /\ file' = file \o r.bytes
        /\ emitted' = Append(emitted, [vals |-> r.vals, size |-> Len(r.bytes)])
        /\ UNCHANGED <<max_bytes, held, tpc, tl, lastGet, ops, ty, phase, dec, out, tamper>>
        /\ UNCHANGED notPages

\* PageEncoder::next returns None: the file is complete.
EncoderDone ==
    /\ phase = "encode"
    /\ ~PageEncoder_next(ty, enc, pool, max_bytes).some
    /\ phase' = "written"
    /\ UNCHANGED <<poolVars, ty, enc, file, emitted, dec, out, tamper>>
    /\ UNCHANGED notPages

\* Byte at of the header of page k is overwritten with another value.
CorruptHeader(k, at) ==
    /\ phase = "written"
    /\ tamper = NoTamper
    /\ k \in 1 .. Len(emitted)
    /\ file' = [file EXCEPT ![PageStart(k) + at + 1] = (@ + 1) % 256]
    /\ tamper' = [kind |-> "corrupt", page |-> k, at |-> at]
    /\ UNCHANGED <<poolVars, ty, enc, emitted, phase, dec, out>>
    /\ UNCHANGED notPages

\* The file is cut at bytes into page k.
Truncate(k, at) ==
    /\ phase = "written"
    /\ tamper = NoTamper
    /\ k \in 1 .. Len(emitted)
    /\ at < emitted[k].size
    /\ file' = SubSeq(file, 1, PageStart(k) + at)
    /\ tamper' = [kind |-> "truncate", page |-> k, at |-> at]
    /\ UNCHANGED <<poolVars, ty, enc, emitted, phase, dec, out>>
    /\ UNCHANGED notPages

\* The bit-width byte of the header of page k is overwritten with 65, a
\* width read_bits refuses.
CorruptWidth(k) ==
    /\ phase = "written"
    /\ tamper = NoTamper
    /\ k \in 1 .. Len(emitted)
    /\ file' = [file EXCEPT ![PageStart(k) + 9] = 64 + 1]
    /\ tamper' = [kind |-> "width", page |-> k, at |-> 8]
    /\ UNCHANGED <<poolVars, ty, enc, emitted, phase, dec, out>>
    /\ UNCHANGED notPages

\* PageDecoder::new / PooledPageDecoder::with_predicate over the file.
OpenReader(d) ==
    /\ phase = "written"
    /\ phase' = "reading"
    /\ dec' = d
    /\ UNCHANGED <<poolVars, ty, enc, file, emitted, out, tamper>>
    /\ UNCHANGED notPages

\* One call of next() on the decoder.
ReaderNext ==
    LET r == Decoder_next(ty, dec, file, pool, max_bytes)
    IN  /\ phase = "reading"
        /\ Len(out) < MaxCalls
        /\ dec' = r.d
        /\ pool' = r.p
        /\ out' = Append(out, r.res)
        /\ UNCHANGED <<max_bytes, held, tpc, tl, lastGet, ops, ty, enc, file, emitted, phase, tamper>>
        /\ UNCHANGED notPages

CorruptOffsets == {0, 6, 7}

CutOffsets == {1, PAGE_HEADER_SIZE - 1} \cup (PAGE_HEADER_SIZE .. PAGE_DEFAULT_SIZE)

NextPages ==
    \/ EmitPage
    \/ EncoderDone
    \/ \E k \in 1 .. MaxPages, at \in CorruptOffsets : CorruptHeader(k, at)
    \/ \E k \in 1 .. MaxPages, at \in CutOffsets : Truncate(k, at)
    \/ \E k \in 1 .. MaxPages : CorruptWidth(k)
    \/ \E d \in ReaderChoices(ty) : OpenReader(d)
    \/ ReaderNext

SpecPages == InitPages /\ [][NextPages]_vars

(***************************************************************************)
(* SpecStream: one BitpackStreamWriter<ty> shared by the producers         *)
(* (columnar/src/encoding/bitpack/v1/stream_writer.rs).  A driver calls    *)
(* begin_stream and end_stream; between them the producers call            *)
(* encode_value.  The Mutex is taken in one step and the body of           *)
(* encode_value runs in steps under it.                                    *)
(***************************************************************************)
MaxValues == 3

MaxCycles == 2

\* The spill threshold, 1 << 20 in the source, is scaled down to 1 << BufShift
\* so that a few values fill the buffer.
BufShift == 1

BUFFER_SIZE == 2 ^ BufShift

StreamMaxBytes == {MIN_BUCKET \div 2, DefaultMaxBytes}

\* File::write_all at the cursor: a cursor past the end leaves a hole of zeros.
WriteAt(data, pos, bytes) ==
    IF pos >= Len(data)
    THEN data \o [i \in 1 .. pos - Len(data) |-> 0] \o bytes
    ELSE SubSeq(data, 1, pos) \o bytes \o SubSeq(data, pos + Len(bytes) + 1, Len(data))

flush_buffer(state) ==
    IF Len(state.buffer) > 0
    THEN [state EXCEPT !.tmp = WriteAt(state.tmp, state.tmp_pos, state.buffer),
                       !.tmp_pos = state.tmp_pos + Len(state.buffer),
                       !.buffer = <<>>]
    ELSE state

\* NumReadIter<_, T> over the bytes from the start: whole values until the
\* read_exact that hits the end.
NumReadIter(t, bytes) ==
    LET size == BITS(t) \div 8
    IN  [i \in 1 .. Len(bytes) \div size |->
            from_le_bytes(t, SubSeq(bytes, (i - 1) * size + 1, i * size))]

\* The loop of end_stream over the page encoder: every page is written to the
\* sink and dropped.
RECURSIVE EncodeAllPages(_, _, _, _)
EncodeAllPages(t, e, p, mb) ==
    LET r == PageEncoder_next(t, e, p, mb)
    IN  IF ~r.some THEN [bytes |-> <<>>, p |-> p]
        ELSE LET rest == EncodeAllPages(t, r.e, DropInto(r.p, r.page), mb)
             IN  [bytes |-> r.bytes \o rest.bytes, p |-> rest.p]

\* BitpackStreamWriter::new(pool) on a new pool.
InitStream ==
    /\ max_bytes \in StreamMaxBytes
    /\ pool = GetPool(NewPool, max_bytes, BUFFER_SIZE)
    /\ ThreadsUnused
    /\ ty \in Types
    /\ sw = [tmp |-> <<>>, tmp_pos |-> 0,
             buffer |-> [i \in 1 .. BUFFER_SIZE |-> 0],
             page |-> resize_uninit(GetPage(NewPool, max_bytes, BUFFER_SIZE), BUFFER_SIZE),
             min |-> T_MAX(ty), max |-> T_MIN(ty), count |-> 0]
    /\ lock = 0
    /\ accepted = <<>>
    /\ cycle = 0
    /\ enc = PageEncoder_new(<<>>, 0, 0)
    /\ file = <<>>
    /\ emitted = <<>>
    /\ phase = "new"
    /\ dec = NewDecoder("none", [lo |-> 0, hi |-> 0])
    /\ out = <<>>
    /\ tamper = NoTamper
    /\ TableUnused
    /\ ColumnUnused
    /\ BitsUnused
    /\ PageUnused
    /\ FilesUnused

\* Mutex::lock succeeds for producer t (0 is the driver).
CanLock(t) == lock = 0

begin_stream ==
    /\ phase \in {"new", "ended"}
    /\ cycle < MaxCycles
    /\ CanLock(0)
    /\ sw' = [sw EXCEPT !.tmp = <<>>, !.min = T_MAX(ty), !.max = T_MIN(ty),
                        !.count = 0, !.buffer = <<>>]
    /\ accepted' = <<>>
    /\ file' = <<>>
    /\ cycle' = cycle + 1
    /\ phase' = "open"
    /\ UNCHANGED <<poolVars, ty, enc, emitted, dec, out, tamper, lock>>
    /\ UNCHANGED notStream

\* encode_value, line 98: producer t takes the lock for value v.
EncLock(t, v) ==
    /\ phase = "open"
    /\ tpc[t] = "idle"
    /\ ops < MaxValues
    /\ CanLock(t)
    /\ lock' = t
    /\ accepted' = Append(accepted, v)
    /\ tpc' = [tpc EXCEPT ![t] = "enc_stats"]
    /\ tl' = [tl EXCEPT ![t] = [v |-> v, i |-> 0]]
    /\ ops' = ops + 1
    /\ UNCHANGED <<pool, max_bytes, held, lastGet, codecVars, sw, cycle>>
    /\ UNCHANGED notStream

\* encode_value, lines 100-102: min, max, count.
EncStats(t) ==
    /\ tpc[t] = "enc_stats"
    /\ sw' = [sw EXCEPT !.min = Min2(sw.min, tl[t].v), !.max = Max2(sw.max, tl[t].v),
                        !.count = sw.count + 1]
    /\ tpc' = [tpc EXCEPT ![t] = "enc_append"]
    /\ UNCHANGED <<pool, max_bytes, held, tl, lastGet, ops, codecVars, lock, accepted, cycle>>
    /\ UNCHANGED notStream

\* encode_value, lines 104-107: append_slice(&v.to_le_bytes()), one byte of
\* the copy per step; the capacity test of append_slice comes first and its
\* error ends the call.
EncAppend(t) ==
    LET bytes == to_le_bytes(ty, tl[t].v)
    IN  /\ tpc[t] = "enc_append"
        /\ IF tl[t].i = 0 /\ Len(sw.buffer) + Len(bytes) > sw.page.cap
           THEN /\ tpc' = [tpc EXCEPT ![t] = "idle"]
                /\ tl' = [tl EXCEPT ![t] = NoLocals]
                /\ lock' = 0
                /\ sw' = sw
           ELSE /\ sw' = [sw EXCEPT !.buffer = Append(sw.buffer, bytes[tl[t].i + 1])]
                /\ tl' = [tl EXCEPT ![t].i = tl[t].i + 1]
                /\ tpc' = [tpc EXCEPT ![t] =
                              IF tl[t].i + 1 = Len(bytes) THEN "enc_flush" ELSE "enc_append"]
                /\ lock' = lock
        /\ UNCHANGED <<pool, max_bytes, held, lastGet, ops, codecVars, accepted, cycle>>
        /\ UNCHANGED notStream

\* encode_value, lines 108-111: the spill, then the guard is dropped.
EncFinish(t) ==
    /\ tpc[t] = "enc_flush"
    /\ sw' = IF Len(sw.buffer) >= BUFFER_SIZE THEN flush_buffer(sw) ELSE sw
    /\ lock' = 0
    /\ tpc' = [tpc EXCEPT ![t] = "idle"]
    /\ tl' = [tl EXCEPT ![t] = NoLocals]
    /\ UNCHANGED <<pool, max_bytes, held, lastGet, ops, codecVars, accepted, cycle>>
    /\ UNCHANGED notStream

\* end_stream, called when every encode_value call has returned: the spill,
\* the width from the raw maximum, the temp file read back through
\* NumReadIter and PageEncoder, every page written to the sink.
end_stream ==
    LET flushed == flush_buffer(sw)
        width == bit_width_from_value(ty, flushed.max)
        pages == EncodeAllPages(ty,
                    PageEncoder_new(NumReadIter(ty, flushed.tmp), width, PAGE_DEFAULT_SIZE),
                    pool, max_bytes)
    IN  /\ phase = "open"
        /\ CanLock(0)
        /\ \A t \in Threads : tpc[t] = "idle"
        /\ phase' = "ended"
        /\ IF flushed.count = 0
           THEN /\ sw' = flushed
                /\ UNCHANGED <<pool, file>>
           ELSE /\ sw' = [flushed EXCEPT !.tmp_pos = Len(flushed.tmp)]
                /\ pool' = pages.p
                /\ file' = file \o pages.bytes
        /\ UNCHANGED <<max_bytes, held, tpc, tl, lastGet, ops, ty, enc, emitted, dec, out,
                       tamper, lock, accepted, cycle>>
        /\ UNCHANGED notStream

NextStream ==
    \/ begin_stream
    \/ \E t \in Threads, v \in ValuesOf(ty) : EncLock(t, v)
    \/ \E t \in Threads : EncStats(t)
    \/ \E t \in Threads : EncAppend(t)
    \/ \E t \in Threads : EncFinish(t)
    \/ end_stream

SpecStream == InitStream /\ [][NextStream]_vars

(***************************************************************************)
(* SpecTable: the record table of indexing/toolkit/src/table for ids of    *)
(* type u16.  Records are handed to an Encoder, the table is exported, a   *)
(* Decoder is opened over the exported bytes and ids are queried: either   *)
(* one id per query, each query followed by one KeyReader::next_reader     *)
(* read to its end, or one query of several ids whose KeyReader is then    *)
(* driven call by call.                                                    *)
(***************************************************************************)
MAGIC == 180157951

HEADER_SIZE == 32

ROW_OFFSET_SIZE == 12

\* The bucket page size, 512 in the source, is scaled down to
\* 1 << TablePageShift so that a few records make several buckets.
TablePageShift == 5

PAGE_SIZE == 2 ^ TablePageShift

MaxRecords == 3

MaxQueries == 2

MaxQueryIds == 2

Ids == 1 .. 4

Payloads == {<<97>>, <<98, 99>>}

\* IsAllowedId::byte_size for u16 and OffsetHeader::size.
IdByteSize == 16 \div 8

OffsetHeader_size == 8 + IdByteSize + 4

\* Every offset at or beyond FarOffset is past the end of every file here; a
\* u64 read from the file is kept exact below it and held at it above.
FarOffset == 2 ^ 24

RECURSIVE FromLEFar(_)
FromLEFar(bytes) ==
    IF bytes = <<>> THEN 0
    ELSE LET hi == FromLEFar(Tail(bytes))
         IN  IF hi >= FarOffset \div 256 THEN FarOffset ELSE Head(bytes) + 256 * hi

\* OffsetHeader::write_to_buffer / from_buffer
OffsetHeader_bytes(h) == ToLE(h.offset, 8) \o ToLE(h.id, IdByteSize) \o ToLE(h.size, 4)

OffsetHeader_from_buffer(b) ==
    [offset |-> FromLEFar(SubSeq(b, 1, 8)),
     id |-> FromLE(SubSeq(b, 9, 8 + IdByteSize)),
     size |-> FromLEFar(SubSeq(b, 9 + IdByteSize, 12 + IdByteSize))]

\* Encoder::write and write_from_reader: the payload goes to the temp file,
\* one OffsetHeader is staged; write_multi_key stages one per id.
Encoder_write(e, ids, data) ==
    [offset |-> e.offset + Len(data),
     tmp |-> e.tmp \o data,
     vec |-> e.vec \o [i \in 1 .. Len(ids) |->
                          [id |-> ids[i], offset |-> e.offset, size |-> Len(data)]]]

\* sort_by_key(|x| x.id): a stable sort.
RECURSIVE SortById(_)
SortById(hs) ==
    IF hs = <<>> THEN <<>>
    ELSE LET k == CHOOSE i \in 1 .. Len(hs) :
                     /\ \A j \in 1 .. Len(hs) : hs[i].id <= hs[j].id
                     /\ \A j \in 1 .. i - 1 : hs[j].id # hs[i].id
         IN  <<hs[k]>> \o SortById(RemoveAt(hs, k))

\* A bucket choice that hashes by the quotient instead of the remainder.
BucketRowsByDiv(hs, b, n) == SelectSeq(hs, LAMBDA h : (h.id \div n) % n = b)

BucketRows(hs, b, n) == SelectSeq(hs, LAMBDA h : h.id % n = b)

\* The running current_offset of export before bucket b (0-based).
RECURSIVE BucketOffset(_, _)
BucketOffset(matrix, b) ==
    IF b = 0 THEN HEADER_SIZE + ROW_OFFSET_SIZE * Len(matrix)
    ELSE BucketOffset(matrix, b - 1) + Len(matrix[b]) + OffsetHeader_size

\* Encoder::export: the bytes written to w.
Encoder_export(e) ==
    LET bucket_len == (Len(e.vec) * OffsetHeader_size) \div PAGE_SIZE + 1
        matrix == [b \in 1 .. bucket_len |-> SortById(BucketRows(e.vec, b - 1, bucket_len))]
        directory == Concat([b \in 1 .. bucket_len |->
                        ToLE(BucketOffset(matrix, b - 1), 8) \o ToLE(Len(matrix[b]), 4)])
        entries == Concat([b \in 1 .. bucket_len |->
                        Concat([i \in 1 .. Len(matrix[b]) |-> OffsetHeader_bytes(matrix[b][i])])])
    IN  ToLE(MAGIC, 8) \o ToLE(bucket_len, 8) \o directory \o entries

\* find_header_by_id over the bytes from pos, at most limit of them.
RECURSIVE find_header_by_id(_, _, _, _)
find_header_by_id(src, pos, limit, target_id) ==
    IF limit < OffsetHeader_size \/ Len(src) - pos < OffsetHeader_size
    THEN [err |-> "NotFound", offset |-> 0, size |-> 0]
    ELSE LET header == OffsetHeader_from_buffer(SubSeq(src, pos + 1, pos + OffsetHeader_size))
         IN  IF header.id = target_id
             THEN [err |-> "", offset |-> header.offset, size |-> header.size]
             ELSE find_header_by_id(src, pos + OffsetHeader_size,
                                    limit - OffsetHeader_size, target_id)

\* KeyReader::process_next_entry for one entry, and the SectionReader it
\* returns read to its end: [kind |-> "ok", bytes] or [kind |-> "err", e].
process_next_entry(src, id, row_offset) ==
    IF Len(src) - row_offset < ROW_OFFSET_SIZE
    THEN [id |-> id, kind |-> "err", e |-> "UnexpectedEof", bytes |-> <<>>]
    ELSE LET buffer == SubSeq(src, row_offset + 1, row_offset + ROW_OFFSET_SIZE)
             data_offset == FromLEFar(SubSeq(buffer, 1, 8))
             row_count == FromLEFar(SubSeq(buffer, 9, 12))
             row_byte_size == OffsetHeader_size * row_count
             found == find_header_by_id(src, data_offset, row_byte_size, id)
         IN  IF found.err # ""
             THEN [id |-> id, kind |-> "err", e |-> found.err, bytes |-> <<>>]
             ELSE [id |-> id, kind |-> "ok", e |-> "",
                   bytes |-> SubSeq(src, found.offset + 1,
                                    Min2(found.offset + found.size, Len(src)))]

InitTable ==
    /\ pool = NewPool
    /\ max_bytes = DefaultMaxBytes
    /\ ThreadsUnused
    /\ ty = "u8"
    /\ enc = PageEncoder_new(<<>>, 0, 0)
    /\ emitted = <<>>
    /\ dec = NewDecoder("none", [lo |-> 0, hi |-> 0])
    /\ tamper = NoTamper
    /\ StreamUnused
    /\ TableUnused
    /\ ColumnUnused
    /\ BitsUnused
    /\ PageUnused
    /\ FilesUnused
    /\ file = <<>>
    /\ out = <<>>
    /\ phase = "writing"

FreshIds == Ids \ {r.id : r \in written}

\* Encoder::write(id, data)
TableWrite(id, data) ==
    /\ phase = "writing"
    /\ Len(tenc.vec) < MaxRecords
    /\ id \in FreshIds
    /\ tenc' = Encoder_write(tenc, <<id>>, data)
    /\ written' = written \cup {[id |-> id, data |-> data]}
    /\ UNCHANGED <<notTable, file, out, phase, rows, kr>>

\* Encoder::write_from_reader(id, reader) with a reader over data
TableWriteFromReader(id, data) ==
    /\ phase = "writing"
    /\ Len(tenc.vec) < MaxRecords
    /\ id \in FreshIds
    /\ tenc' = Encoder_write(tenc, <<id>>, data)
    /\ written' = written \cup {[id |-> id, data |-> data]}
    /\ UNCHANGED <<notTable, file, out, phase, rows, kr>>

\* Encoder::write_multi_key(&[id1, id2], reader) with a reader over data
TableWriteMultiKey(id1, id2, data) ==
    /\ phase = "writing"
    /\ Len(tenc.vec) + 2 <= MaxRecords
    /\ id1 # id2
    /\ {id1, id2} \subseteq FreshIds
    /\ tenc' = Encoder_write(tenc, <<id1, id2>>, data)
    /\ written' = written \cup {[id |-> id1, data |-> data], [id |-> id2, data |-> data]}
    /\ UNCHANGED <<notTable, file, out, phase, rows, kr>>

\* Encoder::export(w): an error when nothing was staged.
TableExport ==
    /\ phase = "writing"
    /\ IF tenc.vec = <<>>
       THEN /\ out' = Append(out, [id |-> 0, kind |-> "err", e |-> "InvalidData", bytes |-> <<>>])
            /\ phase' = "failed"
            /\ file' = file
       ELSE /\ file' = Encoder_export(tenc)
            /\ phase' = "exported"
            /\ out' = out
    /\ UNCHANGED <<notTable, tenc, written, rows, kr>>

\* Decoder::new over the exported bytes.
TableOpen ==
    /\ phase = "exported"
    /\ IF Len(file) < HEADER_SIZE
       THEN /\ out' = Append(out, [id |-> 0, kind |-> "err", e |-> "UnexpectedEof", bytes |-> <<>>])
            /\ phase' = "failed"
            /\ rows' = rows
       ELSE IF SubSeq(file, 1, 8) # ToLE(MAGIC, 8)
       THEN /\ out' = Append(out, [id |-> 0, kind |-> "err", e |-> "InvalidData", bytes |-> <<>>])
            /\ phase' = "failed"
            /\ rows' = rows
       ELSE /\ rows' = FromLEFar(SubSeq(file, 9, 16))
            /\ phase' = "open"
            /\ out' = out
    /\ UNCHANGED <<notTable, tenc, written, file, kr>>

\* Decoder::query(&[id]) and one next_reader on the KeyReader.
TableQuery(id) ==
    /\ phase = "open"
    /\ ~kr.open
    /\ Len(out) < MaxQueries
    /\ out' = Append(out, process_next_entry(file, id,
                              HEADER_SIZE + ROW_OFFSET_SIZE * (id % rows)))
    /\ UNCHANGED <<notTable, tenc, written, file, phase, rows, kr>>

\* Decoder::query(values): one KeyEntry per id, in order, and a KeyReader
\* over the table.
Decoder_query(values) ==
    /\ phase = "open"
    /\ ~kr.open
    /\ out = <<>>
    /\ kr' = [open |-> TRUE, query |-> values, results |-> <<>>,
              entries |-> [i \in 1 .. Len(values) |->
                              [id |-> values[i],
                               row_offset |-> HEADER_SIZE
                                                + ROW_OFFSET_SIZE * (values[i] % rows)]]]
    /\ UNCHANGED <<notTable, tenc, written, file, out, phase, rows>>

\* KeyReader::next_reader: None when no entry is left; otherwise the first
\* entry is removed and served, and the SectionReader is read to its end.
KeyReader_next_reader ==
    /\ kr.open
    /\ Len(kr.results) <= Len(kr.query)
    /\ kr' = IF kr.entries = <<>>
             THEN [kr EXCEPT !.results =
                       Append(@, [id |-> 0, kind |-> "none", e |-> "", bytes |-> <<>>])]
             ELSE [kr EXCEPT !.entries = Tail(@),
                             !.results = Append(@, process_next_entry(file,
                                                      Head(kr.entries).id,
                                                      Head(kr.entries).row_offset))]
    /\ UNCHANGED <<notTable, tenc, written, file, out, phase, rows>>

NextTable ==
    \/ \E id \in Ids, data \in Payloads : TableWrite(id, data)
    \/ \E id \in Ids, data \in Payloads : TableWriteFromReader(id, data)
    \/ \E id1 \in Ids, id2 \in Ids, data \in Payloads : TableWriteMultiKey(id1, id2, data)
    \/ TableExport
    \/ TableOpen
    \/ \E id \in Ids : TableQuery(id)
    \/ \E values \in BoundedSeq(Ids, MaxQueryIds) : Decoder_query(values)
    \/ KeyReader_next_reader

SpecTable == InitTable /\ [][NextTable]_vars

(***************************************************************************)
(* SpecColumn: a StreamColumn<u8> (indexing/columnar/src/stream.rs) with   *)
(* or without a Categorical index (indexing/categorical.rs).  The caller   *)
(* pushes values and closes the column once.  The encoder is a             *)
(* Box<dyn StreamingEncoder>: a call of encode_value returns Ok, returns   *)
(* an error without having taken the value, or returns an error after it   *)
(* has taken the value (BitpackStreamWriter, whose spill to the temp file  *)
(* fails after the value was counted and buffered).  The table Encoder     *)
(* inside flush stores its ids in IdByteSize bytes.                        *)
(***************************************************************************)
MaxPushes == 3

ColumnValues == {1, 2}

EncodeOutcomes == {"ok", "refused", "taken_then_failed"}

\* CatIntConv::into_u64 for u8: `self as u64` extends with zeros.
into_u64(v) == v

\* The elements of a set of numbers in increasing order.
RECURSIVE SortedSeq(_)
SortedSeq(S) ==
    IF S = {} THEN <<>>
    ELSE LET m == CHOOSE x \in S : \A y \in S : x <= y
         IN  <<m>> \o SortedSeq(S \ {m})

\* RoaringBitmap::serialize_into for positions below 65536: the cookie
\* 12346 and the number of containers, then for the one array container its
\* key and cardinality - 1, its offset, and its values in two bytes each.
RoaringBytes(bitmap) ==
    LET n == Cardinality(bitmap)
        sorted == SortedSeq(bitmap)
    IN  IF n = 0 THEN ToLE(12346, 4) \o ToLE(0, 4)
        ELSE ToLE(12346, 4) \o ToLE(1, 4) \o ToLE(0, 2) \o ToLE(n - 1, 2) \o ToLE(16, 4)
             \o Concat([i \in 1 .. n |-> ToLE(sorted[i], 2)])

\* Categorical::record: self.table.entry(value).or_default().insert(position)
Categorical_record(c, value, position) ==
    [c EXCEPT !.table = IF value \in DOMAIN @
                        THEN [@ EXCEPT ![value] = @ \cup {position}]
                        ELSE @ @@ (value :> {position})]

\* The orders in which a HashMap with key set S can be iterated.
Orders(S) ==
    {o \in [1 .. Cardinality(S) -> S] : \A i, j \in 1 .. Cardinality(S) : i # j => o[i] # o[j]}

\* The loop of Categorical::flush (lines 71-75) over the keys in iteration
\* order: every bitmap is serialized into the one vec, which is then written.
RECURSIVE FlushEntries(_, _, _, _)
FlushEntries(table, order, vec, e) ==
    IF order = <<>> THEN e
    ELSE LET key == Head(order)
             vec2 == vec \o RoaringBytes(table[key])
         IN  FlushEntries(table, Tail(order), vec2, Encoder_write(e, <<into_u64(key)>>, vec2))

NewEncoder == [offset |-> 0, vec |-> <<>>, tmp |-> <<>>]

\* Categorical::flush: [err, e, bytes], the error returned ("" for Ok), the
\* table Encoder afterwards and the bytes written to the index file.
Categorical_flush(c, order, dir_fails) ==
    IF dir_fails THEN [err |-> "Other", e |-> NewEncoder, bytes |-> <<>>]
    ELSE LET e == FlushEntries(c.table, order, <<>>, NewEncoder)
         IN  IF e.vec = <<>> THEN [err |-> "InvalidData", e |-> e, bytes |-> <<>>]
             ELSE [err |-> "", e |-> e, bytes |-> Encoder_export(e)]

\* StreamColumn::new with the given index option; begin_stream has run.
InitColumn ==
    /\ pool = NewPool
    /\ max_bytes = DefaultMaxBytes
    /\ ThreadsUnused
    /\ CodecUnused
    /\ StreamUnused
    /\ TableUnused
    /\ \E index \in BOOLEAN :
          col = [row_pos |-> 0, index |-> index, closed |-> FALSE, results |-> <<>>]
    /\ cenc = [rows |-> <<>>, ended |-> "no"]
    /\ cat = [table |-> <<>>, flushed |-> "no"]
    /\ BitsUnused
    /\ PageUnused
    /\ FilesUnused

\* StreamColumn::push(&v), the encoder's call ending as outcome says.
StreamColumn_push(v, outcome) ==
    /\ ~col.closed
    /\ Len(col.results) < MaxPushes
    /\ cenc' = IF outcome = "refused" THEN cenc ELSE [cenc EXCEPT !.rows = Append(@, v)]
    /\ IF outcome = "ok"
       THEN /\ cat' = IF col.index THEN Categorical_record(cat, v, col.row_pos) ELSE cat
            /\ col' = [col EXCEPT !.row_pos = @ + 1,
                                  !.results = Append(@, [call |-> "push", err |-> ""])]
       ELSE /\ cat' = cat
            /\ col' = [col EXCEPT !.results = Append(@, [call |-> "push", err |-> "encoder"])]
    /\ UNCHANGED <<notColumn, file, tenc>>

\* StreamColumn::close(self): index.flush()? and then encoder.end_stream.
StreamColumn_close(order, dir_fails, end_fails) ==
    LET fl == Categorical_flush(cat, order, dir_fails)
    IN  /\ ~col.closed
        /\ order \in Orders(DOMAIN cat.table)
        /\ ~col.index => ~dir_fails
        /\ IF col.index /\ fl.err # ""
           THEN /\ cat' = [cat EXCEPT !.flushed = "err"]
                /\ tenc' = fl.e
                /\ col' = [col EXCEPT !.closed = TRUE,
                                      !.results = Append(@, [call |-> "close", err |-> "index"])]
                /\ UNCHANGED <<cenc, file>>
           ELSE /\ IF col.index
                   THEN /\ cat' = [cat EXCEPT !.flushed = "ok"]
                        /\ tenc' = fl.e
                        /\ file' = fl.bytes
                   ELSE UNCHANGED <<cat, tenc, file>>
                /\ cenc' = [cenc EXCEPT !.ended = IF end_fails THEN "err" ELSE "ok"]
                /\ col' = [col EXCEPT !.closed = TRUE,
                                      !.results = Append(@, [call |-> "close",
                                                    err |-> IF end_fails THEN "encoder" ELSE ""])]
        /\ UNCHANGED notColumn

NextColumn ==
    \/ \E v \in ColumnValues, outcome \in EncodeOutcomes : StreamColumn_push(v, outcome)
    \/ \E order \in Orders(ColumnValues) \cup Orders({1}) \cup Orders({2}) \cup Orders({}),
          dir_fails \in BOOLEAN, end_fails \in BOOLEAN :
          StreamColumn_close(order, dir_fails, end_fails)

SpecColumn == InitColumn /\ [][NextColumn]_vars

(***************************************************************************)
(* SpecBits: values of a type are written with a BitWriter of a fixed      *)
(* width into a Vec<u8>, the writer is flushed, and a BitReader reads the  *)
(* values back with read_value at the same width (bitpack_tests.rs,        *)
(* roundtrip_variable_widths).  u64 joins the column types here, with      *)
(* values small enough for the model's words.  write_value shifts the code *)
(* right by the chunk it staged; a shift by the whole word width panics in *)
(* a build with overflow checks and shifts by 0 in a build without, and    *)
(* rt.checks says which build runs.                                        *)
(***************************************************************************)
MaxRtValues == 2

BitTypes == Types \cup {"u64"}

\* The single values a round trip is tried on: the whole type where it is
\* small, its corners otherwise.
RangeOf(t) ==
    IF t = "u64" THEN {0, 2, 2 ^ 20 + 1}
    ELSE IF t = "i16" THEN {T_MIN(t), 0 - 300, 0 - 2, 0 - 1, 0, 1, 255, 256, T_MAX(t)}
    ELSE T_MIN(t) .. T_MAX(t)

RtInputs(t) ==
    {<<v>> : v \in RangeOf(t)}
    \cup (BoundedSeq(IF t = "u64" THEN RangeOf(t) ELSE ValuesOf(t), MaxRtValues) \ {<<>>})

\* encode(v) < 2^width
FitsWidth(t, v, width) == LowBits(encode(t, v), width) = encode(t, v)

\* BitReader::read_value
read_value(t, r, width) ==
    LET raw == read_bits(r, width)
    IN  [r |-> raw.r, err |-> raw.err,
         val |-> IF raw.err = "" THEN decode(t, raw.val) ELSE 0]

InitBits ==
    /\ pool = NewPool
    /\ max_bytes = DefaultMaxBytes
    /\ ThreadsUnused
    /\ CodecUnused
    /\ StreamUnused
    /\ TableUnused
    /\ ColumnUnused
    /\ PageUnused
    /\ FilesUnused
    /\ \E t \in BitTypes, checks \in BOOLEAN :
         \E width \in 1 .. BITS(t) :
            \E vals \in {in \in RtInputs(t) :
                            \A i \in 1 .. Len(in) : FitsWidth(t, in[i], width)} :
               rt = [t |-> t, width |-> width, vals |-> vals, checks |-> checks,
                     stage |-> "write", count |-> 0,
                     writer |-> NewBitWriter(t, <<>>, width),
                     reader |-> NewBitReader(<<>>), got |-> <<>>,
                     stream |-> BitStream_new(<<>>, width), all |-> <<>>,
                     ended |-> FALSE]

\* writer.write_value(val) for the next value; the call panics when it
\* shifts by the word width and the build checks overflow.
RtWrite ==
    LET w2 == write_value(rt.t, rt.writer, rt.vals[rt.count + 1])
    IN  /\ rt.stage = "write"
        /\ rt.count < Len(rt.vals)
        /\ rt' = IF w2.overflowed /\ rt.checks
                 THEN [rt EXCEPT !.stage = "panicked"]
                 ELSE [rt EXCEPT !.writer = w2, !.count = rt.count + 1]
        /\ UNCHANGED notBits

\* writer.flush(), and a BitReader over the bytes written.
RtFlush ==
    LET w2 == flush(rt.writer)
    IN  /\ rt.stage = "write"
        /\ rt.count = Len(rt.vals)
        /\ rt' = [rt EXCEPT !.writer = w2, !.reader = NewBitReader(w2.out),
                            !.stage = "read"]
        /\ UNCHANGED notBits

\* reader.read_value(width)
RtRead ==
    LET r2 == read_value(rt.t, rt.reader, rt.width)
    IN  /\ rt.stage = "read"
        /\ Len(rt.got) < Len(rt.vals)
        /\ rt' = [rt EXCEPT !.reader = r2.r,
                            !.got = Append(@, [err |-> r2.err, val |-> r2.val])]
        /\ UNCHANGED notBits

\* BitStream::new over the bytes written, once read_value has read them.
RtOpenStream ==
    /\ rt.stage = "read"
    /\ Len(rt.got) = Len(rt.vals)
    /\ rt' = [rt EXCEPT !.stream = BitStream_new(rt.writer.out, rt.width),
                        !.stage = "stream"]
    /\ UNCHANGED notBits

\* stream.next() of the unbounded stream, until it returns None.
RtNext ==
    LET n == BitStream_next(rt.t, rt.stream)
    IN  /\ rt.stage = "stream"
        /\ ~rt.ended
        /\ rt' = [rt EXCEPT !.stream = n.s,
                            !.all = IF n.res.kind = "none" THEN @ ELSE Append(@, n.res),
                            !.ended = n.res.kind = "none"]
        /\ UNCHANGED notBits

NextBits ==
    \/ RtWrite
    \/ RtFlush
    \/ RtRead
    \/ RtOpenStream
    \/ RtNext

SpecBits == InitBits /\ [][NextBits]_vars

(***************************************************************************)
(* SpecAppend: a page is taken from a new pool and filled by append_slice  *)
(* calls of several lengths, with clear calls in between.                  *)
(***************************************************************************)
MaxAppends == 3

AppendSizes == {1, 300}

\* The slices appended: lengths around the capacities of the pages.
AppendData ==
    {[i \in 1 .. n |-> b] : n \in {0, 1, MIN_BUCKET - 1, MIN_BUCKET, 2 * MIN_BUCKET},
                            b \in {7}}

InitAppend ==
    /\ max_bytes = DefaultMaxBytes
    /\ ThreadsUnused
    /\ CodecUnused
    /\ StreamUnused
    /\ TableUnused
    /\ ColumnUnused
    /\ BitsUnused
    /\ FilesUnused
    /\ \E n \in AppendSizes :
          /\ pool = GetPool(NewPool, max_bytes, n)
          /\ sp = [page |-> GetPage(NewPool, max_bytes, n), buf |-> <<>>,
                   calls |-> 0, last |-> NoCall]

\* page.append_slice(data)
PageAppend(data) ==
    LET r == append_slice(sp.page, sp.buf, data)
    IN  /\ sp.calls < MaxAppends
        /\ sp' = [page |-> r.page, buf |-> r.buf, calls |-> sp.calls + 1,
                  last |-> [op |-> "append_slice", data |-> data, err |-> r.err]]
        /\ UNCHANGED <<pool, notAppend>>

\* page.clear()
PageClear ==
    LET r == clear(sp.page, sp.buf)
    IN  /\ sp.calls < MaxAppends
        /\ sp' = [page |-> r.page, buf |-> r.buf, calls |-> sp.calls + 1,
                  last |-> [op |-> "clear", data |-> <<>>, err |-> ""]]
        /\ UNCHANGED <<pool, notAppend>>

NextAppend ==
    \/ \E data \in AppendData : PageAppend(data)
    \/ PageClear

SpecAppend == InitAppend /\ [][NextAppend]_vars

(***************************************************************************)
(* SpecDoc: strings/doc_writer.rs and strings/doc_reader.rs.  A token      *)
(* sequence is written by DocWriter::write and searched by                 *)
(* DocReader::search, each search reading the bytes from the start.        *)
(***************************************************************************)
DOC_MAGIC == <<77, 73, 68, 79, 67, 49>>

DOC_HEADER_SIZE == 32

DOC_VERSION == 1

MaxDocLen == 3

MaxQueryLen == 3

MaxSearches == 2

DocTokens == {10, 20}

\* The positions of token in tokens, counted from 0, in increasing order.
PositionsOf(tokens, token) ==
    SelectSeq([i \in 1 .. Len(tokens) |-> i - 1], LAMBDA pos : tokens[pos + 1] = token)

\* sort_unstable_by_key on keys that are distinct.
RECURSIVE SortedKeys(_)
SortedKeys(S) ==
    IF S = {} THEN <<>>
    ELSE LET k == CHOOSE x \in S : \A y \in S : x <= y
         IN  <<k>> \o SortedKeys(S \ {k})

\* One encoded position list: byte length, width, then count and values.
EncodedEntry(positions) ==
    LET e == encode_values("u32", positions)
    IN  ToLE(Len(e.buffer), 4) \o <<e.width>> \o e.buffer

RECURSIVE EntryTable(_, _, _)
EntryTable(keys, datas, current_offset) ==
    IF keys = <<>> THEN <<>>
    ELSE ToLE(Head(keys), 8) \o ToLE(current_offset, 8)
         \o EntryTable(Tail(keys), Tail(datas), current_offset + Len(Head(datas)))

\* DocWriter::write: the bytes written.
DocWriter_write(tokens) ==
    IF tokens = <<>> THEN <<>>
    ELSE LET keys == SortedKeys(SeqRange(tokens))
             datas == [i \in 1 .. Len(keys) |-> EncodedEntry(PositionsOf(tokens, keys[i]))]
             data_size == Len(Concat(datas))
             header == DOC_MAGIC \o <<DOC_VERSION>> \o ToLE(data_size, 4)
                       \o ToLE(Len(keys), 4) \o [i \in 1 .. DOC_HEADER_SIZE - 15 |-> 0]
         IN  header \o EntryTable(keys, datas, 0) \o Concat(datas)

\* DocHeader::from_reader
DocHeader_from_reader(bytes) ==
    IF Len(bytes) < DOC_HEADER_SIZE
    THEN [err |-> "UnexpectedEof", data_size |-> 0, entry_count |-> 0]
    ELSE IF SubSeq(bytes, 1, 6) # DOC_MAGIC \/ bytes[7] # DOC_VERSION
    THEN [err |-> "InvalidData", data_size |-> 0, entry_count |-> 0]
    ELSE [err |-> "", data_size |-> FromLE(SubSeq(bytes, 8, 11)),
          entry_count |-> FromLE(SubSeq(bytes, 12, 15))]

\* A lookup that reads the first position list whatever the offset is.
PositionSetAtStart(buf, entry_size, offset) ==
    LET buff_len == FromLE(SubSeq(buf, entry_size + 1, entry_size + 4))
        d == decode_values("u32", SubSeq(buf, entry_size + 6, entry_size + 5 + buff_len),
                           buf[entry_size + 5])
    IN  [err |-> d.err, set |-> SeqRange(d.vals)]

\* The position set of one query token, read from the buffer through the
\* offset the table holds for it.
PositionSet(buf, entry_size, offset) ==
    LET size_start == entry_size + offset
        size_end == size_start + 4
    IN  IF size_end + 1 > Len(buf) THEN [err |-> "panic", set |-> {}]
        ELSE LET buff_len == FromLE(SubSeq(buf, size_start + 1, size_end))
                 width == buf[size_end + 1]
                 buff_start == size_end + 1
                 buff_end == buff_start + buff_len
             IN  IF buff_end > Len(buf) THEN [err |-> "panic", set |-> {}]
                 ELSE LET d == decode_values("u32", SubSeq(buf, buff_start + 1, buff_end),
                                             width)
                      IN  [err |-> d.err, set |-> SeqRange(d.vals)]

\* The key and the offset of the i-th entry of the table at the buffer's start.
EntryKey(buf, i) == FromLE(SubSeq(buf, 16 * (i - 1) + 1, 16 * (i - 1) + 8))

EntryOffset(buf, i) == FromLE(SubSeq(buf, 16 * (i - 1) + 9, 16 * (i - 1) + 16))

\* offsets_map[&token]; HashMap::insert: the last entry of a key wins.
offsets_map_get(buf, entry_count, token) ==
    EntryOffset(buf, CHOOSE i \in 1 .. entry_count :
                         /\ EntryKey(buf, i) = token
                         /\ \A j \in i + 1 .. entry_count : EntryKey(buf, j) # token)

\* The error of the first position set that failed to decode, "" when none.
FirstSetError(sets) ==
    LET bad == {k \in 1 .. Len(sets) : sets[k].err # ""}
    IN  IF bad = {} THEN "" ELSE sets[CHOOSE k \in bad : \A j \in bad : k <= j].err

\* The closing loop of search: some position val of the first token has
\* val + i in the set of the i-th following token.
PhraseAt(sets, err, got) ==
    IF err # "" THEN [err |-> err, found |-> FALSE, got |-> got]
    ELSE [err |-> "",
          found |-> \E val \in sets[1].set :
                        \A i \in 1 .. Len(sets) - 1 : (val + i) \in sets[i + 1].set,
          got |-> got]

\* search once the buffer is read: the table, the early return for an absent
\* token, one position set per query token.
SearchBuffer(buf, entry_count, total_size, tokens) ==
    IF \E k \in 1 .. Len(tokens) : \A i \in 1 .. entry_count : EntryKey(buf, i) # tokens[k]
    THEN [err |-> "", found |-> FALSE, got |-> total_size]
    ELSE LET sets == [k \in 1 .. Len(tokens) |->
                          PositionSet(buf, entry_count * 16,
                                      offsets_map_get(buf, entry_count, tokens[k]))]
         IN  PhraseAt(sets, FirstSetError(sets), total_size)

\* search once the header is read: the pool's buffer of total_size bytes is
\* filled by read_exact.
SearchBody(header, bytes, tokens) ==
    LET total_size == header.entry_count * 16 + header.data_size
    IN  IF header.err # "" THEN [err |-> header.err, found |-> FALSE, got |-> 0]
        ELSE IF Len(bytes) - DOC_HEADER_SIZE < total_size
        THEN [err |-> "UnexpectedEof", found |-> FALSE, got |-> total_size]
        ELSE SearchBuffer(SubSeq(bytes, DOC_HEADER_SIZE + 1, DOC_HEADER_SIZE + total_size),
                          header.entry_count, total_size, tokens)

\* DocReader::search on the bytes of a reader at its start: the outcome and
\* the size of the buffer taken from the pool (0 when none was taken).
DocReader_search(bytes, tokens) ==
    IF tokens = <<>> THEN [err |-> "", found |-> FALSE, got |-> 0]
    ELSE SearchBody(DocHeader_from_reader(bytes), bytes, tokens)

notDoc == <<max_bytes, held, tpc, tl, lastGet, ops, codecVars, streamVars, tableVars,
            columnVars, bitVars, fsl, sl, ff, lp>>

InitDoc ==
    /\ pool = NewPool
    /\ max_bytes = DefaultMaxBytes
    /\ ThreadsUnused
    /\ CodecUnused
    /\ StreamUnused
    /\ TableUnused
    /\ ColumnUnused
    /\ BitsUnused
    /\ PageUnused
    /\ SliceUnused
    /\ SlicerUnused
    /\ FooterUnused
    /\ LegacyUnused
    /\ \E tokens \in BoundedSeq(DocTokens, MaxDocLen) : doc = [NoDoc EXCEPT !.tokens = tokens]

\* writer.write(doc_tokens, &mut buffer)
DocWrite ==
    /\ ~doc.written
    /\ doc' = [doc EXCEPT !.bytes = DocWriter_write(doc.tokens), !.written = TRUE]
    /\ UNCHANGED <<pool, notDoc>>

\* let mut buffer = self.pool.get(total_size); buffer.resize_uninit(total_size);
\* the buffer is dropped when search returns.
BufferLent(p, mb, n) == DropInto(GetPool(p, mb, n), resize_uninit(GetPage(p, mb, n), n))

\* The state after a search that returned r; header_err is the outcome of
\* reading the header, before which no buffer is taken.
SearchReturned(query, r, header_err) ==
    /\ doc.written
    /\ doc.calls < MaxSearches
    /\ doc' = [doc EXCEPT !.calls = @ + 1,
                          !.last = [query |-> query, err |-> r.err, found |-> r.found]]
    /\ pool' = IF r.got = 0 /\ (query = <<>> \/ header_err # "")
               THEN pool
               ELSE BufferLent(pool, max_bytes, r.got)
    /\ UNCHANGED notDoc

\* reader.search(&mut Cursor::new(buffer), search_tokens)
DocSearch(query) ==
    SearchReturned(query, DocReader_search(doc.bytes, query),
                   DocHeader_from_reader(doc.bytes).err)

NextDoc ==
    \/ DocWrite
    \/ \E query \in BoundedSeq(DocTokens \cup {40}, MaxQueryLen) : DocSearch(query)

SpecDoc == InitDoc /\ [][NextDoc]_vars

(***************************************************************************)
(* SpecSlice: fspkg/file_slice.rs.  One FileSlice over a source it owns,   *)
(* driven by read and seek calls.  The 64-bit words of SeekFrom are scaled *)
(* to 30 bits, so that i64::MAX and u64::MAX are values of the model; the  *)
(* build either checks signed overflow, and then panics, or wraps.         *)
(***************************************************************************)
MaxSliceCalls == 3

U64Modulus == 2 ^ 30

I64_MAX == U64Modulus \div 2 - 1

I64_MIN == 0 - U64Modulus \div 2

\* p as i64, and the wrapping of a sum of two i64
AsI64(x) == LET m == x % U64Modulus IN IF m > I64_MAX THEN m - U64Modulus ELSE m

\* The source: every byte differs from the others.
SliceFile == <<11, 12, 13, 14, 15, 16>>

\* (offset, size) of the slices tried, one of them past the end of the source.
SliceBounds == {<<0, 3>>, <<2, 3>>, <<4, 2>>, <<6, 0>>, <<5, 3>>}

ReadLens == {1, 2, 4}

\* The arguments of seek: [from, p], p an u64 for Start and an i64 otherwise.
SeekArgs ==
    [from : {"Start"}, p : {0, 1, 3, 4, U64Modulus - 1}]
    \cup [from : {"End", "Current"}, p : {I64_MIN, 0 - 4, 0 - 1, 0, 1, 2, I64_MAX}]

NoSliceCall == [op |-> "none", err |-> "", pos0 |-> 0, data |-> <<>>, arg |-> <<>>]

\* Read::read of a source at cursor for at most n bytes: what is there.
InnerRead(src, cursor, n) ==
    SubSeq(src, cursor + 1, Min2(Len(src), cursor + n))

\* FileSlice::new: the inner source is positioned at the start of the slice.
FileSlice_new(src, offset, size) ==
    [src |-> src, inner |-> offset, start_offset |-> offset, size |-> size,
     current_pos |-> 0]

\* Read for FileSlice: the slice afterwards and the bytes returned.
FileSlice_read(s, n) ==
    LET bytes_left == (s.size - s.current_pos) % U64Modulus
        bytes_to_read == Min2(n, bytes_left)
        data == InnerRead(s.src, s.inner, bytes_to_read)
    IN  IF bytes_left = 0 THEN [s |-> s, data |-> <<>>]
        ELSE [s |-> [s EXCEPT !.inner = @ + Len(data), !.current_pos = @ + Len(data)],
              data |-> data]

\* Seek for FileSlice: the slice afterwards and the error; the sum of the
\* i64 operands panics when it overflows in a build that checks overflow.
FileSlice_seek(s, arg, checks) ==
    LET base == IF arg.from = "Start" THEN 0
                ELSE IF arg.from = "End" THEN s.size ELSE s.current_pos
        sum == IF arg.from = "Start" THEN AsI64(arg.p) ELSE base + arg.p
        new_pos_relative == AsI64(sum)
    IN  IF checks /\ sum # new_pos_relative THEN [s |-> s, err |-> "panic"]
        ELSE IF new_pos_relative < 0 THEN [s |-> s, err |-> "InvalidInput"]
        ELSE IF new_pos_relative > s.size THEN [s |-> s, err |-> "InvalidInput"]
        ELSE [s |-> [s EXCEPT !.inner = s.start_offset + new_pos_relative,
                              !.current_pos = new_pos_relative],
              err |-> ""]

notSlice == <<poolVars, codecVars, streamVars, tableVars, columnVars, bitVars,
              doc, sl, ff, lp>>

InitSlice ==
    /\ pool = NewPool
    /\ max_bytes = DefaultMaxBytes
    /\ ThreadsUnused
    /\ CodecUnused
    /\ StreamUnused
    /\ TableUnused
    /\ ColumnUnused
    /\ BitsUnused
    /\ PageUnused
    /\ DocUnused
    /\ SlicerUnused
    /\ FooterUnused
    /\ LegacyUnused
    /\ \E b \in SliceBounds, checks \in BOOLEAN :
          fsl = [slice |-> FileSlice_new(SliceFile, b[1], b[2]), checks |-> checks,
                 calls |-> 0, panicked |-> FALSE, last |-> NoSliceCall]

\* slice.read(&mut buf) with a buffer of n bytes
SliceRead(n) ==
    LET r == FileSlice_read(fsl.slice, n)
    IN  /\ ~fsl.panicked
        /\ fsl.calls < MaxSliceCalls
        /\ fsl' = [fsl EXCEPT !.slice = r.s, !.calls = @ + 1,
                              !.last = [op |-> "read", err |-> "",
                                        pos0 |-> fsl.slice.current_pos,
                                        data |-> r.data, arg |-> <<>>]]
        /\ UNCHANGED notSlice

\* slice.seek(pos)
SliceSeek(arg) ==
    LET r == FileSlice_seek(fsl.slice, arg, fsl.checks)
    IN  /\ ~fsl.panicked
        /\ fsl.calls < MaxSliceCalls
        /\ fsl' = [fsl EXCEPT !.slice = r.s, !.calls = @ + 1,
                              !.panicked = r.err = "panic",
                              !.last = [op |-> "seek", err |-> r.err,
                                        pos0 |-> fsl.slice.current_pos,
                                        data |-> <<>>, arg |-> arg]]
        /\ UNCHANGED notSlice

NextSlice ==
    \/ \E n \in ReadLens : SliceRead(n)
    \/ \E arg \in SeekArgs : SliceSeek(arg)

SpecSlice == InitSlice /\ [][NextSlice]_vars

(***************************************************************************)
(* SpecSlicer: fspkg/sectioned_slice.rs.  Two SectionedSlices of one       *)
(* FileSlicer, each used by a thread of its own.  A read takes the mutex   *)
(* of the shared source, seeks it, reads and releases; a seek touches the  *)
(* slice alone.                                                            *)
(***************************************************************************)
MaxSlicerCalls == 3

\* The sections of the slicer: id -> (offset, size).
SectionIds == {1, 2, 3, 99}

Sections(id) ==
    IF id = 1 THEN <<0, 3>> ELSE IF id = 2 THEN <<3, 2>> ELSE IF id = 3 THEN <<5, 1>>
    ELSE <<6, 0>>

SliceHandles == {1, 2}

NoHolder == 0

SlicerReadLens == {1, 2, 4}

SlicerSeekArgs ==
    [from : {"Start"}, p : {0, 1, 5, U64Modulus - 1}]
    \cup [from : {"End"}, p : {0 - 1, 0, I64_MAX}]
    \cup [from : {"Current"}, p : {0 - 1, 1}]

\* A Mutex that does not exclude: lock succeeds whoever holds it.
MutexLockAny(holder) == TRUE

\* Mutex::lock returns once nobody holds the mutex.
MutexLock(holder) == holder = NoHolder

\* FileSlicer::get_slice
get_slice(id) ==
    [start_offset |-> Sections(id)[1], size |-> Sections(id)[2], current_pos |-> 0,
     pc |-> "idle", want |-> 0, last |-> NoSliceCall]

\* Seek for SectionedSlice: only a negative target is refused.
SectionedSlice_seek(s, arg, checks) ==
    LET base == IF arg.from = "Start" THEN 0
                ELSE IF arg.from = "End" THEN s.size ELSE s.current_pos
        sum == IF arg.from = "Start" THEN AsI64(arg.p) ELSE base + arg.p
        new_pos_relative == AsI64(sum)
    IN  IF checks /\ sum # new_pos_relative THEN [s |-> s, err |-> "panic"]
        ELSE IF new_pos_relative < 0 THEN [s |-> s, err |-> "InvalidInput"]
        ELSE [s |-> [s EXCEPT !.current_pos = new_pos_relative], err |-> ""]

\* size.saturating_sub(current_pos)
BytesLeft(s) == IF s.current_pos >= s.size THEN 0 ELSE s.size - s.current_pos

notSlicer == <<poolVars, codecVars, streamVars, tableVars, columnVars, bitVars,
               doc, fsl, ff, lp>>

InitSlicer ==
    /\ pool = NewPool
    /\ max_bytes = DefaultMaxBytes
    /\ ThreadsUnused
    /\ CodecUnused
    /\ StreamUnused
    /\ TableUnused
    /\ ColumnUnused
    /\ BitsUnused
    /\ PageUnused
    /\ DocUnused
    /\ SliceUnused
    /\ FooterUnused
    /\ LegacyUnused
    /\ \E ids \in [SliceHandles -> SectionIds], checks \in BOOLEAN :
          sl = [src |-> SliceFile, cursor |-> 0, holder |-> NoHolder, checks |-> checks,
                calls |-> 0, slices |-> [i \in SliceHandles |-> get_slice(ids[i])]]

\* read, line 22: the call begins and takes the mutex.
SlicerLock(i, n) ==
    /\ sl.slices[i].pc = "idle"
    /\ sl.calls < MaxSlicerCalls
    /\ MutexLock(sl.holder)
    /\ sl' = [sl EXCEPT !.holder = i, !.calls = @ + 1,
                        !.slices[i].pc = "locked", !.slices[i].want = n]
    /\ UNCHANGED notSlicer

\* read, lines 27-37: at the end of the slice Ok(0) is returned and the guard
\* dropped; otherwise the shared cursor is moved to the slice's position.
SlicerSeekInner(i) ==
    LET s == sl.slices[i]
    IN  /\ s.pc = "locked"
        /\ sl' = IF BytesLeft(s) = 0
                 THEN [sl EXCEPT !.holder = NoHolder,
                                 !.slices[i].pc = "idle",
                                 !.slices[i].last = [op |-> "read", err |-> "",
                                                     pos0 |-> s.current_pos,
                                                     data |-> <<>>, arg |-> <<>>]]
                 ELSE [sl EXCEPT !.cursor = s.start_offset + s.current_pos,
                                 !.slices[i].pc = "sought"]
        /\ UNCHANGED notSlicer

\* read, lines 39-43: the bytes are read at the shared cursor, the slice's
\* position advances and the guard is dropped.
SlicerReadInner(i) ==
    LET s == sl.slices[i]
        data == InnerRead(sl.src, sl.cursor, Min2(s.want, BytesLeft(s)))
    IN  /\ s.pc = "sought"
        /\ sl' = [sl EXCEPT !.cursor = @ + Len(data), !.holder = NoHolder,
                            !.slices[i].pc = "idle",
                            !.slices[i].current_pos = @ + Len(data),
                            !.slices[i].last = [op |-> "read", err |-> "",
                                                pos0 |-> s.current_pos,
                                                data |-> data, arg |-> <<>>]]
        /\ UNCHANGED notSlicer

\* slice.seek(pos): no lock is taken; a panic ends the slice's thread.
SlicerSeek(i, arg) ==
    LET s == sl.slices[i]
        r == SectionedSlice_seek(s, arg, sl.checks)
    IN  /\ s.pc = "idle"
        /\ sl.calls < MaxSlicerCalls
        /\ sl' = [sl EXCEPT !.calls = @ + 1,
                            !.slices[i] =
                                [r.s EXCEPT !.pc = IF r.err = "panic" THEN "panicked"
                                                   ELSE "idle",
                                            !.last = [op |-> "seek", err |-> r.err,
                                                      pos0 |-> s.current_pos,
                                                      data |-> <<>>, arg |-> arg]]]
        /\ UNCHANGED notSlicer

NextSlicer ==
    \E i \in SliceHandles :
        \/ \E n \in SlicerReadLens : SlicerLock(i, n)
        \/ SlicerSeekInner(i)
        \/ SlicerReadInner(i)
        \/ \E arg \in SlicerSeekArgs : SlicerSeek(i, arg)

SpecSlicer == InitSlicer /\ [][NextSlicer]_vars

(***************************************************************************)
(* SpecFooter: footerfile/file_encoder.rs, common.rs and file_decoder.rs.  *)
(* Columns are written to a new footer file, the file is closed, and a     *)
(* decoder opened on it hands out the columns as FileSlices.               *)
(***************************************************************************)
MAGIC_FOOTER == <<70, 79, 79, 84, 82, 49>>

MAGIC_AND_DATA_SIZE == 14

COLUMN_META_SIZE == 20

MaxColumns == 2

MaxColumnReads == 2

ColumnIds == {1, 2, 3}

ColumnData == {<<>>, <<1>>, <<2, 3>>, <<70, 79, 79>>}

\* The probe of Read::read_to_end, scaled to two bytes so that a column
\* takes several reads.
ReadProbe == 2

ColumnMetaBytes(c) == ToLE(c.id, 4) \o ToLE(c.offset, 8) \o ToLE(c.size, 8)

\* Footer::write_to: the column records, their total size, the magic.
Footer_write_to(columns) ==
    Concat([i \in 1 .. Len(columns) |-> ColumnMetaBytes(columns[i])])
    \o ToLE(Len(columns) * COLUMN_META_SIZE, 8) \o MAGIC_FOOTER

\* A write that records the column and leaves current_offset where it was.
FooterFileEncoder_write_at_start(f, column_id, data) ==
    IF \E i \in 1 .. Len(f.columns) : f.columns[i].id = column_id
    THEN [f |-> f, err |-> "InvalidData"]
    ELSE [f |-> [f EXCEPT !.bytes = @ \o data,
                          !.columns = Append(@, [id |-> column_id,
                                                 offset |-> f.current_offset,
                                                 size |-> Len(data)])],
          err |-> ""]

\* FooterFileEncoder::write with a reader that yields data: io::copy appends
\* it to the file.
FooterFileEncoder_write(f, column_id, data) ==
    IF \E i \in 1 .. Len(f.columns) : f.columns[i].id = column_id
    THEN [f |-> f, err |-> "InvalidData"]
    ELSE [f |-> [f EXCEPT !.bytes = @ \o data,
                          !.columns = Append(@, [id |-> column_id,
                                                 offset |-> f.current_offset,
                                                 size |-> Len(data)]),
                          !.current_offset = @ + Len(data)],
          err |-> ""]

\* The ColumnMeta records of a buffer, 20 bytes each; a shorter last chunk
\* cannot be sliced.
ParseColumns(buff) ==
    [k \in 1 .. (Len(buff) + COLUMN_META_SIZE - 1) \div COLUMN_META_SIZE |->
        LET chunk == SubSeq(buff, COLUMN_META_SIZE * (k - 1) + 1,
                            Min2(Len(buff), COLUMN_META_SIZE * k))
        IN  IF Len(chunk) < COLUMN_META_SIZE
            THEN [id |-> 0, offset |-> 0, size |-> 0, bad |-> TRUE]
            ELSE [id |-> FromLE(SubSeq(chunk, 1, 4)), offset |-> FromLE(SubSeq(chunk, 5, 12)),
                  size |-> FromLE(SubSeq(chunk, 13, 20)), bad |-> FALSE]]

\* common.rs get_footer on the bytes of a file.
get_footer(bytes) ==
    LET file_size == Len(bytes)
        buff == SubSeq(bytes, file_size - MAGIC_AND_DATA_SIZE + 1, file_size)
        size == FromLE(SubSeq(buff, 1, 8))
        offset == file_size - (size + MAGIC_AND_DATA_SIZE)
        cols == ParseColumns(SubSeq(bytes, offset + 1, offset + size))
    IN  IF file_size < MAGIC_AND_DATA_SIZE THEN [err |-> "panic", columns |-> <<>>]
        ELSE IF SubSeq(buff, 9, MAGIC_AND_DATA_SIZE) # MAGIC_FOOTER
        THEN [err |-> "InvalidData", columns |-> <<>>]
        ELSE IF offset < 0 \/ \E k \in 1 .. Len(cols) : cols[k].bad
        THEN [err |-> "panic", columns |-> <<>>]
        ELSE [err |-> "",
              columns |-> [k \in 1 .. Len(cols) |->
                              [id |-> cols[k].id, offset |-> cols[k].offset,
                               size |-> cols[k].size]]]

\* Read::read_to_end on a FileSlice: reads until one returns no byte.
RECURSIVE read_to_end(_)
read_to_end(s) ==
    LET r == FileSlice_read(s, ReadProbe)
    IN  IF r.data = <<>> THEN <<>> ELSE r.data \o read_to_end(r.s)

\* FooterFileDecoder::get_column and read_to_end on the slice it returns.
get_column(footer, bytes, column_id) ==
    LET found == {k \in 1 .. Len(footer) : footer[k].id = column_id}
        column == footer[CHOOSE k \in found : \A j \in found : k <= j]
    IN  IF found = {} THEN [err |-> "InvalidData", data |-> <<>>]
        ELSE [err |-> "",
              data |-> read_to_end(FileSlice_new(bytes, column.offset, column.size))]

notFooter == <<poolVars, codecVars, streamVars, tableVars, columnVars, bitVars,
               doc, fsl, sl, lp>>

\* FooterFileEncoder::create
InitFooter ==
    /\ pool = NewPool
    /\ max_bytes = DefaultMaxBytes
    /\ ThreadsUnused
    /\ CodecUnused
    /\ StreamUnused
    /\ TableUnused
    /\ ColumnUnused
    /\ BitsUnused
    /\ PageUnused
    /\ DocUnused
    /\ SliceUnused
    /\ SlicerUnused
    /\ LegacyUnused
    /\ ff = NoFooterFile

\* encoder.write(column_id, &mut Cursor::new(data))
FooterWrite(column_id, data) ==
    LET r == FooterFileEncoder_write(ff, column_id, data)
    IN  /\ ~ff.closed
        /\ Len(ff.writes) < MaxColumns
        /\ ff' = [r.f EXCEPT !.writes = IF r.err = ""
                                        THEN Append(@, [id |-> column_id, data |-> data])
                                        ELSE @,
                             !.last = [op |-> "write", id |-> column_id, err |-> r.err,
                                       data |-> <<>>]]
        /\ UNCHANGED notFooter

\* encoder.close()
FooterClose ==
    /\ ~ff.closed
    /\ ff' = [ff EXCEPT !.bytes = @ \o Footer_write_to(ff.columns), !.closed = TRUE,
                        !.last = [op |-> "close", id |-> 0, err |-> "", data |-> <<>>]]
    /\ UNCHANGED notFooter

\* FooterFileDecoder::new(path)
FooterOpen ==
    LET r == get_footer(ff.bytes)
    IN  /\ ff.closed
        /\ ~ff.opened
        /\ ff' = [ff EXCEPT !.opened = r.err = "", !.footer = r.columns,
                            !.last = [op |-> "new", id |-> 0, err |-> r.err, data |-> <<>>]]
        /\ UNCHANGED notFooter

\* decoder.get_column(column_id) and column.read_to_end(&mut buffer)
FooterGetColumn(column_id) ==
    LET r == get_column(ff.footer, ff.bytes, column_id)
    IN  /\ ff.opened
        /\ ff.calls < MaxColumnReads
        /\ ff' = [ff EXCEPT !.calls = @ + 1,
                            !.last = [op |-> "get_column", id |-> column_id,
                                      err |-> r.err, data |-> r.data]]
        /\ UNCHANGED notFooter

NextFooter ==
    \/ \E column_id \in ColumnIds, data \in ColumnData : FooterWrite(column_id, data)
    \/ FooterClose
    \/ FooterOpen
    \/ \E column_id \in ColumnIds : FooterGetColumn(column_id)

SpecFooter == InitFooter /\ [][NextFooter]_vars

(***************************************************************************)
(* SpecLegacy: buffers/buffer_pool.rs, the BufferPool that came before     *)
(* SmartBufferPool.  One owner takes pages with get, grows them and drops  *)
(* them; current_bytes is what bytes_in_pool() returns.                    *)
(***************************************************************************)
MaxLegacyOps == 4

LegacySizes == {1, 300, 1000}

\* BufferPoolEntry::bucket_index: the doublings of min_bucket that reach cap.
RECURSIVE DoublingsFrom(_, _)
DoublingsFrom(c, cap) == IF c < cap THEN 1 + DoublingsFrom(2 * c, cap) ELSE 0

BufferPoolEntry_bucket_index(cap) == DoublingsFrom(MIN_BUCKET, cap)

\* BufferPool::new: one empty bucket per power of two from 256 to 1 << 20.
BufferPool_new ==
    [buckets |-> [i \in 0 .. BufferPoolEntry_bucket_index(MAX_BUCKET) |-> <<>>],
     current_bytes |-> 0]

\* BufferPool::get: [p, page], the pool afterwards and the page returned.
BufferPool_get(p, min_capacity) ==
    LET want == Min2(pow2_ceil(Max2(min_capacity, MIN_BUCKET)), MAX_BUCKET)
        idx == BufferPoolEntry_bucket_index(want)
        bin == p.buckets[idx]
    IN  IF bin # <<>>
        THEN [p |-> [p EXCEPT !.buckets[idx] = SubSeq(bin, 1, Len(bin) - 1),
                              !.current_bytes = WrapUsize(@ - Last(bin))],
              page |-> [cap |-> Last(bin), len |-> 0, cap_bucket |-> want]]
        ELSE [p |-> [p EXCEPT !.current_bytes = WrapUsize(@ + want)],
              page |-> [cap |-> want, len |-> 0, cap_bucket |-> want]]

\* Drop for PoolPage: the capacity is added before the bucket is locked and
\* again after.
PoolPage_drop(p, page) ==
    IF page.cap_bucket > MAX_BUCKET
    THEN [p EXCEPT !.current_bytes = WrapUsize(@ - page.cap)]
    ELSE [p EXCEPT !.current_bytes = WrapUsize(WrapUsize(@ + page.cap) + page.cap),
                   !.buckets[BufferPoolEntry_bucket_index(page.cap_bucket)] =
                       Append(@, page.cap)]

\* PoolPage::resize_uninit
PoolPage_resize_uninit(page, new_len) ==
    IF new_len > page.len
    THEN [page EXCEPT !.cap = GrownCap(page.cap, new_len), !.len = new_len]
    ELSE [page EXCEPT !.len = new_len]

notLegacy == <<poolVars, codecVars, streamVars, tableVars, columnVars, bitVars,
               doc, fsl, sl, ff>>

InitLegacy ==
    /\ pool = NewPool
    /\ max_bytes = DefaultMaxBytes
    /\ ThreadsUnused
    /\ CodecUnused
    /\ StreamUnused
    /\ TableUnused
    /\ ColumnUnused
    /\ BitsUnused
    /\ PageUnused
    /\ DocUnused
    /\ SliceUnused
    /\ SlicerUnused
    /\ FooterUnused
    /\ lp = [pool |-> BufferPool_new, held |-> <<>>, ops |-> 0, gets |-> 0, drops |-> 0]

\* let page = pool.get(n)
LegacyGet(n) ==
    LET r == BufferPool_get(lp.pool, n)
    IN  /\ lp.ops < MaxLegacyOps
        /\ Len(lp.held) < 2
        /\ lp' = [lp EXCEPT !.pool = r.p, !.held = Append(@, r.page), !.ops = @ + 1,
                            !.gets = @ + 1]
        /\ UNCHANGED notLegacy

\* page.resize_uninit(new_len) on the k-th page held
LegacyResize(k, new_len) ==
    /\ lp.ops < MaxLegacyOps
    /\ k \in 1 .. Len(lp.held)
    /\ lp' = [lp EXCEPT !.held[k] = PoolPage_resize_uninit(@, new_len), !.ops = @ + 1]
    /\ UNCHANGED notLegacy

\* drop(page) of the k-th page held
LegacyDrop(k) ==
    /\ k \in 1 .. Len(lp.held)
    /\ lp' = [lp EXCEPT !.pool = PoolPage_drop(lp.pool, lp.held[k]),
                        !.held = RemoveAt(@, k), !.drops = @ + 1]
    /\ UNCHANGED notLegacy

NextLegacy ==
    \/ \E n \in LegacySizes : LegacyGet(n)
    \/ \E k \in 1 .. 2, new_len \in LegacySizes : LegacyResize(k, new_len)
    \/ \E k \in 1 .. 2 : LegacyDrop(k)

SpecLegacy == InitLegacy /\ [][NextLegacy]_vars

(***************************************************************************)
(* Pool claims                                                             *)
(***************************************************************************)
PageIds(pages) == [k \in 1 .. Len(pages) |-> pages[k].id]

HeldPages == Concat([k \in 1 .. Len(ThreadOrder) |-> held[ThreadOrder[k]]])

CachedBuffers == Concat([k \in 1 .. MAX_INDEX + 1 |-> pool.buckets[k - 1]])

NoDuplicates(s) == \A i, j \in 1 .. Len(s) : i # j => s[i] # s[j]

AllIdle == \A t \in Threads : tpc[t] = "idle"

IsPow2(n) == n >= 1 /\ pow2_ceil(n) = n

\* C3: under any interleaving of get, page drop and trim by the threads
\* sharing the pool, no buffer is owned by two live pages at once, and no
\* buffer owned by a live page also sits in a bucket's free list.
C3_ExclusiveOwnership == NoDuplicates(PageIds(HeldPages) \o PageIds(CachedBuffers))

\* A buffer that was cached has been handed out again (a hit) and both
\* threads hold a page.
C3_Witness ==
    /\ pool.hit_count >= 1
    /\ \A t \in Threads : held[t] # <<>>

\* C4: whenever no call is in progress, bytes_in_pool() is the sum of the
\* capacities of the in-flight pages and of the cached buffers.
C4_BytesAccounted ==
    AllIdle => bytes_in_pool(pool) = SumCaps(HeldPages) + SumCaps(CachedBuffers)

\* C5: the page a get(n) returns has length 0 and capacity exactly the rounded
\* request, a power of two in [MIN_BUCKET, MAX_BUCKET] when n <= MAX_BUCKET.
C5_GetCapacityIsRounded ==
    \A t \in Threads :
        lastGet[t] # NoGet =>
            /\ lastGet[t].page.len = 0
            /\ lastGet[t].page.cap = WantFor(lastGet[t].n)
            /\ lastGet[t].n <= MAX_BUCKET =>
                   /\ IsPow2(lastGet[t].page.cap)
                   /\ lastGet[t].page.cap >= MIN_BUCKET
                   /\ lastGet[t].page.cap <= MAX_BUCKET

\* The step completes a get of thread t.
GetCompletes(t) == tpc[t] \in {"get_pop", "get_alloc"} /\ tpc'[t] = "idle"

\* Every step that completes a get increments exactly one of hit_count and
\* miss_count, hit_count exactly when the step pops a buffer from the bucket
\* of the rounded capacity; no other step changes either counter.
CountsOneGet ==
    LET dh == pool'.hit_count - pool.hit_count
        dm == pool'.miss_count - pool.miss_count
    IN  /\ \A t \in Threads :
               GetCompletes(t) =>
                   LET idx == bucket_index(tl[t].want)
                       popped == /\ tl[t].want <= MAX_BUCKET
                                 /\ pool.buckets[idx] # <<>>
                                 /\ pool'.buckets[idx] =
                                        SubSeq(pool.buckets[idx], 1, Len(pool.buckets[idx]) - 1)
                   IN  /\ dh \in {0, 1}
                       /\ dh + dm = 1
                       /\ dh = 1 <=> popped
        /\ (\A t \in Threads : ~GetCompletes(t)) => (dh = 0 /\ dm = 0)

\* get(300), drop, get(300) on a new pool of ceiling mb, each call run to
\* its end: one miss, then one hit, both pages of capacity 512, and one
\* buffer cached after the second drop.
ReuseScenario(mb) ==
    LET p1 == GetPool(NewPool, mb, 300)
        g1 == GetPage(NewPool, mb, 300)
        p2 == DropInto(p1, g1)
        p3 == GetPool(p2, mb, 300)
        g2 == GetPage(p2, mb, 300)
        p4 == DropInto(p3, g2)
    IN  /\ p1.miss_count = 1 /\ p1.hit_count = 0
        /\ p3.miss_count = 1 /\ p3.hit_count = 1
        /\ g1.cap = 512 /\ g2.cap = 512
        /\ Len(Concat([k \in 1 .. MAX_INDEX + 1 |-> p4.buckets[k - 1]])) = 1

\* C19 as stated: the counters count the gets, a hit is a pop from the bucket
\* of the rounded capacity, and get(300), drop, get(300) is a miss and then a
\* hit whatever the pool's ceiling.
C19_HitOrMissPerGet == [](ReuseScenario(max_bytes)) /\ [][CountsOneGet]_vars

\* C19, amended: the same, with get(300), drop, get(300) being a miss and
\* then a hit on a pool whose ceiling is at least the 512 bytes of the
\* cached buffer (a lower ceiling makes the second get trim the buffer away).
C19_HitOrMissPerGetUnderCeiling ==
    [](max_bytes >= 512 => ReuseScenario(max_bytes)) /\ [][CountsOneGet]_vars

\* get(300), drop, get(300) by one thread has just completed with a hit.
C19_Witness ==
    /\ max_bytes >= 512
    /\ ops = 2
    /\ AllIdle
    /\ pool.hit_count = 1
    /\ pool.miss_count = 1
    /\ lastGet[1].n = 300
    /\ lastGet[1].page.cap = 512
    /\ lastGet[2] = NoGet

\* C20: a get of more than MAX_BUCKET returns a page of capacity at least
\* the request, and the step that drops such a page leaves every bucket's
\* free list as it was and lowers bytes_in_pool() by the page's capacity.
DropsLargePage ==
    \A t \in Threads : \A k \in 1 .. Len(held[t]) :
        (held'[t] = RemoveAt(held[t], k) /\ held[t][k].cap_bucket > MAX_BUCKET) =>
            /\ pool'.buckets = pool.buckets
            /\ bytes_in_pool(pool') = bytes_in_pool(pool) - held[t][k].cap

C20_LargePageNotCached ==
    /\ [](\A t \in Threads :
              lastGet[t].n > MAX_BUCKET => lastGet[t].page.cap >= lastGet[t].n)
    /\ [][DropsLargePage]_vars

\* The bytes get accounted for a buffer filed in bucket i: the rounded
\* capacity of that size class.
AccountedIn(i) == MIN_BUCKET * (2 ^ i)

\* The step is one bucket of a trim run by thread t.
TrimsBucket(t) ==
    /\ tpc[t] \in {"get_trim", "trim"}
    /\ tl'[t] # tl[t] \/ tpc'[t] # tpc[t]

\* A trim step empties its bucket and lowers bytes_in_pool() by what was
\* accounted for the buffers it drained.
TrimSubtractsAccounted ==
    \A t \in Threads :
        TrimsBucket(t) =>
            /\ pool'.buckets[tl[t].i] = <<>>
            /\ bytes_in_pool(pool') =
                   bytes_in_pool(pool) - Len(pool.buckets[tl[t].i]) * AccountedIn(tl[t].i)

\* No page is in flight, no call is running and every free list is empty.
PoolAtRest ==
    /\ AllIdle
    /\ \A t \in Threads : held[t] = <<>>
    /\ \A i \in 0 .. MAX_INDEX : pool.buckets[i] = <<>>

\* C21: every bucket step of a trim empties that bucket's free list and
\* subtracts exactly the bytes accounted for the drained buffers, and a step
\* that ends a trim with no page in flight and every free list empty leaves
\* bytes_in_pool() at 0, which is within max_bytes.
C21_TrimReleasesAccounted ==
    /\ [][TrimSubtractsAccounted]_vars
    /\ [][(\E t \in Threads : TrimsBucket(t) /\ tpc'[t] = "idle") =>
              (PoolAtRest' => (bytes_in_pool(pool') = 0 /\ bytes_in_pool(pool') <= max_bytes))]_vars

\* Thread t is inside a get.
InGet(t) == tpc[t] \in {"get_trim", "get_pop", "get_alloc"}

\* A thread inside a call has a step it can take, whatever the others do.
CanStep(t) == ENABLED (TrimStep(t) \/ GetPop(t) \/ GetAlloc(t))

\* C22: under any interleaving of get, page drop and trim by the threads, a
\* thread inside a call can always take its next step (no deadlock, no wait
\* for another thread's release, over the ceiling included), every get that
\* started eventually returns, and the step that returns hands the caller
\* one more page.
C22_GetNeverBlocks ==
    /\ [](\A t \in Threads : tpc[t] # "idle" => CanStep(t))
    /\ \A t \in Threads : InGet(t) ~> (tpc[t] = "idle")
    /\ [][\A t \in Threads :
              GetCompletes(t) => /\ Len(held'[t]) = Len(held[t]) + 1
                                 /\ lastGet'[t].page = Last(held'[t])]_vars

\* A thread got its second page while its first page alone kept
\* bytes_in_pool() above the ceiling: that get went through trim.
C22_Witness ==
    /\ AllIdle
    /\ max_bytes = MIN_BUCKET
    /\ Len(held[1]) = 2
    /\ bytes_in_pool(pool) > max_bytes

(***************************************************************************)
(* Page claims                                                             *)
(***************************************************************************)
\* The header of the k-th emitted page as PageHeader::read_from parses it.
HeaderOf(k) == PageHeader_read_from(ty, file, PageStart(k))

\* The values among the items a reader returned.
RECURSIVE ValuesIn(_)
ValuesIn(items) ==
    IF items = <<>> THEN <<>>
    ELSE (IF Head(items).kind = "val" THEN <<Head(items).v>> ELSE <<>>) \o ValuesIn(Tail(items))

ReaderFinished == phase = "reading" /\ out # <<>> /\ Last(out).kind = "none"

\* C7: every page PageEncoder emitted has, for the bit width w and the count
\* in its header, a payload of ceil(count * w / 8) bytes (which is also the
\* header's payload_bytes), and its header min and max bound every value of
\* the page, with min = max = v for a page of one value.
C7_PageHeaderConsistent ==
    tamper = NoTamper =>
        \A k \in 1 .. Len(emitted) :
            LET h == HeaderOf(k)
                payload == emitted[k].size - PAGE_HEADER_SIZE
                vals == emitted[k].vals
            IN  /\ h.err = ""
                /\ h.count = Len(vals)
                /\ h.data_bytes = payload
                /\ payload = (h.count * h.bit_width + 7) \div 8
                /\ \A v \in SeqRange(vals) : h.min <= v /\ v <= h.max
                /\ Len(vals) = 1 => (h.min = vals[1] /\ h.max = vals[1])

\* C2: a PooledPageDecoder driven to the end of an intact file produced by
\* PageEncoder yields exactly the values of the pages whose header satisfies
\* the predicate, pages in file order and values in write order, and nothing
\* of a rejected page.
C2_PredicateFiltering ==
    (ReaderFinished /\ tamper = NoTamper /\ dec.kind = "PooledPageDecoder") =>
        /\ \A i \in 1 .. Len(out) : out[i].kind # "err"
        /\ ValuesIn(out) =
             Concat([k \in 1 .. Len(emitted) |->
                        IF Accepts(dec.pred, HeaderOf(k)) THEN emitted[k].vals ELSE <<>>])

\* C9: when the header of page k has a wrong magic, version or element byte
\* width, a PageDecoder or PooledPageDecoder returns what it returns for the
\* pages before k and then, where page k starts, an InvalidData error and no
\* value of page k; with k the first page the first next() is that error.
C9_BadHeaderIsInvalidData ==
    (phase = "reading" /\ tamper.kind = "corrupt") =>
        LET before == DecodeAll(ty, NewDecoder(dec.kind, dec.pred),
                                SubSeq(file, 1, PageStart(tamper.page)),
                                NewPool, max_bytes, MaxCalls)
        IN  /\ \A i \in 1 .. Min2(Len(before), Len(out)) : out[i] = before[i]
            /\ Len(out) > Len(before) => out[Len(before) + 1] = ResErr("InvalidData")

C9_Witness ==
    /\ phase = "reading"
    /\ tamper.kind = "corrupt"
    /\ tamper.page = 2
    /\ dec.kind = "PooledPageDecoder"
    /\ Len(out) >= 2
    /\ out[1].kind = "val"
    /\ Last(out) = ResErr("InvalidData")

\* C10: when the file ends inside the payload of a page (its header is whole,
\* fewer than payload_bytes bytes follow), the reader returns an UnexpectedEof
\* error before any end-of-stream, whether or not the predicate accepts the
\* page.
C10_ShortPayloadIsUnexpectedEof ==
    (ReaderFinished /\ tamper.kind = "truncate" /\ tamper.at >= PAGE_HEADER_SIZE) =>
        \E i \in 1 .. Len(out) : out[i] = ResErr("UnexpectedEof")

\* C11: when the file was cut inside a page header (between 1 and 63 bytes
\* remain after the last whole page), the reader returns an InvalidData error
\* before any end-of-stream.
C11_TruncatedHeaderIsInvalidData ==
    (ReaderFinished /\ tamper.kind = "truncate"
        /\ tamper.at >= 1 /\ tamper.at < PAGE_HEADER_SIZE) =>
        \E i \in 1 .. Len(out) : out[i] = ResErr("InvalidData")

\* The reader has consumed the whole source and the values of its last page.
AtEndOfSource ==
    /\ phase = "reading"
    /\ dec.pos = Len(file)
    /\ (~dec.cur.some \/ dec.cur.s.remaining = 0)

\* C12: a reader whose source ends at a page boundary returns None from
\* next(), a reader of an empty source has returned nothing but None, and a
\* PageEncoder over an empty input returns no page and leaves the file empty.
C12_CleanEndAtPageBoundary ==
    /\ AtEndOfSource => Decoder_next(ty, dec, file, pool, max_bytes).res = ResNone
    /\ (phase = "reading" /\ file = <<>>) => \A i \in 1 .. Len(out) : out[i] = ResNone
    /\ (phase \in {"encode", "written", "reading"} /\ enc.input = <<>> /\ emitted = <<>>) =>
           (file = <<>> /\ ~PageEncoder_next(ty, enc, pool, max_bytes).some)

C12_Witness ==
    /\ phase = "reading"
    /\ tamper = NoTamper
    /\ Len(emitted) >= 2
    /\ dec.pos = Len(file)
    /\ out # <<>>
    /\ out[1].kind = "val"
    /\ Last(out) = ResNone

\* C13: once a reader has returned an error for a corrupt or truncated page,
\* no later call of next() returns a decoded value.
C13_ErrorIsFatal ==
    phase = "reading" =>
        \A i, j \in 1 .. Len(out) :
            (i < j /\ out[i].kind = "err") => out[j].kind # "val"

\* C17: on an intact file a PooledPageDecoder has called the predicate once
\* on each header it has passed, in file order; its source position is the
\* end of the last of those pages (a rejected payload is consumed exactly);
\* the pool gets it has made are as many as the pages among them that satisfy
\* the predicate; and it holds a current page only if the last header
\* satisfied the predicate (after a rejected page it needs a page).
C17_PredicateOncePerHeader ==
    (phase = "reading" /\ tamper = NoTamper /\ dec.kind = "PooledPageDecoder") =>
        LET n == Len(dec.evals)
            kept == {k \in 1 .. Min2(n, Len(emitted)) :
                        dec.pred.lo <= HeaderOf(k).min /\ HeaderOf(k).max <= dec.pred.hi}
        IN  /\ n <= Len(emitted)
            /\ \A k \in 1 .. n : dec.evals[k] = PageStart(k)
            /\ dec.pos = PageStart(n + 1)
            /\ pool.hit_count + pool.miss_count = Len(emitted) + Cardinality(kept)
            /\ dec.cur.some => n \in kept

C17_Witness ==
    /\ phase = "reading"
    /\ tamper = NoTamper
    /\ dec.kind = "PooledPageDecoder"
    /\ Len(dec.evals) = 3
    /\ pool.hit_count + pool.miss_count = Len(emitted) + 1
    /\ \E i \in 1 .. Len(out) : out[i].kind = "val"
    /\ Last(out) = ResNone

\* C18: a page decoder holds at most one pool page: every buffer the pool
\* ever allocated is either that page or back in the free list of its
\* capacity's bucket; the decoder holds a page only while the last item it
\* returned came from it, and holds none after it has returned None or the
\* UnexpectedEof of a failed payload read.
C18_OnePoolPage ==
    phase = "reading" =>
        /\ Len(CachedBuffers) + (IF dec.cur.some THEN 1 ELSE 0) = pool.next_id - 1
        /\ \A i \in 0 .. MAX_INDEX : \A k \in 1 .. Len(pool.buckets[i]) :
               bucket_index(pool.buckets[i][k].cap) = i
        /\ dec.cur.some => (out # <<>> /\ Last(out).kind # "none")
        /\ (out # <<>> /\ Last(out) = ResErr("UnexpectedEof")) => ~dec.cur.some

C18_Witness ==
    /\ phase = "reading"
    /\ Len(out) >= 2
    /\ out[1].kind = "val"
    /\ Last(out) = ResErr("UnexpectedEof")
    /\ ~dec.cur.some
    /\ Len(CachedBuffers) = pool.next_id - 1

\* C24: clamp_width_to_type is min(w, BITS(T)) (8 for u8 and width 10), and
\* for a PageEncoder built with a width above BITS(T) every emitted page is
\* packed with min(w, BITS(T)) bits per value, says so in its header, and a
\* PageDecoder driven to the end of the intact file yields the written values.
C24_WidthClampedBothWays ==
    /\ clamp_width_to_type("u8", 10) = 8
    /\ \A t \in Types : \A w \in 0 .. 2 * BITS(t) :
           clamp_width_to_type(t, w) = Min2(w, BITS(t))
    /\ (enc.width > BITS(ty) /\ tamper = NoTamper) =>
           LET w == Min2(enc.width, BITS(ty))
           IN  /\ \A k \in 1 .. Len(emitted) :
                      /\ emitted[k].size - PAGE_HEADER_SIZE =
                             (Len(emitted[k].vals) * w + 7) \div 8
                      /\ HeaderOf(k).bit_width = w
               /\ (ReaderFinished /\ dec.kind = "PageDecoder") =>
                      ValuesIn(out) = Concat([k \in 1 .. Len(emitted) |-> emitted[k].vals])

\* The values per page of the claim: floor((S - 64) * 8 / w).
ValuesPerPage == ((enc.page_size - PAGE_HEADER_SIZE) * 8) \div enc.width

\* The number of values in the pages emitted so far.
EmittedValues == Len(Concat([k \in 1 .. Len(emitted) |-> emitted[k].vals]))

\* C26: with a width w > 0 and floor((S - 64) * 8 / w) >= 1 values per page,
\* every page PageEncoder emitted before another holds exactly that many
\* values, the last page holds between 1 and that many, and when the encoder
\* is done it has consumed its n inputs in exactly ceil(n / vpp) pages.
C26_PagesOfInput ==
    (enc.width > 0 /\ enc.page_size > PAGE_HEADER_SIZE /\ ValuesPerPage >= 1) =>
        /\ \A k \in 1 .. Len(emitted) :
               IF k < Len(emitted)
               THEN Len(emitted[k].vals) = ValuesPerPage
               ELSE Len(emitted[k].vals) \in 1 .. ValuesPerPage
        /\ phase \in {"written", "reading"} =>
               /\ enc.input = <<>>
               /\ Len(emitted) = (EmittedValues + ValuesPerPage - 1) \div ValuesPerPage

\* Three values were written two to a page: a full page and a last page of one.
C26_Witness ==
    /\ phase = "written"
    /\ enc.width > 0
    /\ ValuesPerPage = 2
    /\ Len(emitted) = 2
    /\ Len(emitted[1].vals) = 2
    /\ Len(emitted[2].vals) = 1

\* C36: for every width w in [1, BITS(T)] and every page size of at least
\* HEADER_SIZE + 1 the PageEncoder ends after finitely many pages: every
\* page it emits holds at least one value, so that it never emits more pages
\* than values.
C36_EveryPageHoldsAValue ==
    (enc.width \in 1 .. BITS(ty) /\ enc.page_size >= PAGE_HEADER_SIZE + 1) =>
        /\ \A k \in 1 .. Len(emitted) : Len(emitted[k].vals) >= 1
        /\ Len(emitted) <= EmittedValues

(***************************************************************************)
(* Stream writer claims                                                    *)
(***************************************************************************)
\* What a PageDecoder<ty> over the emitted bytes returns until its first None.
Decoded ==
    DecodeAll(ty, NewDecoder("PageDecoder", [lo |-> T_MIN(ty), hi |-> T_MAX(ty)]),
              file, pool, max_bytes, 2 * MaxValues + 2)

Written == [i \in 1 .. Len(accepted) |-> ResVal(accepted[i])]

\* C1: after begin_stream, encode_value for each value of vs in order and
\* end_stream, a PageDecoder over the emitted bytes yields exactly vs, in
\* order, for signed and unsigned types.
C1_StreamRoundTrip == phase = "ended" => Decoded = Written

\* C23: bit_width_from_value(0) is 1 for every type, and once end_stream has
\* run on the values accepted in the cycle, the width it derives from the
\* maximum value seen, bit_width_from_value(state.max), holds the code of
\* every accepted value, for signed and unsigned types.
C23_WidthFromMaxFitsAll ==
    /\ \A t \in Types : bit_width_from_value(t, 0) = 1
    /\ (phase = "ended" /\ accepted # <<>>) =>
           LET w == bit_width_from_value(ty, sw.max)
           IN  \A i \in 1 .. Len(accepted) : encode(ty, accepted[i]) < 2 ^ w

\* C6: encode_value calls of several producers between begin_stream and
\* end_stream are serialized: the count is the number of calls, the raw bytes
\* in the temp file are the whole values one after the other in lock order,
\* and decoding after end_stream yields the values in lock order.
C6_ProducersSerialized ==
    phase = "ended" =>
        LET raw == Concat([i \in 1 .. Len(accepted) |-> to_le_bytes(ty, accepted[i])])
        IN  /\ sw.count = Len(accepted)
            /\ SubSeq(sw.tmp, Len(sw.tmp) - Len(raw) + 1, Len(sw.tmp)) = raw
            /\ Decoded = Written

\* The values end_stream read back from the temp file for the PageEncoder.
PagedValues == NumReadIter(ty, sw.tmp)

\* C37: begin_stream resets the writer: when a second begin_stream,
\* encode_value*, end_stream cycle on the same writer has ended, the values
\* paged are exactly the values of that cycle, with no value of the first
\* cycle and no filler value, and nothing is emitted when it had no value.
C37_SecondCycleIsClean ==
    (cycle >= 2 /\ phase = "ended") =>
        IF accepted = <<>> THEN file = <<>> ELSE PagedValues = accepted

(***************************************************************************)
(* Table claims                                                            *)
(***************************************************************************)
\* C8: after records are written with write, write_from_reader or
\* write_multi_key and exported, query(id) on a Decoder over the exported
\* bytes returns a reader over exactly the payload written for id; the ids of
\* one multi-key write return the same payload.
C8_QueryReturnsPayload ==
    phase = "open" =>
        \A i \in 1 .. Len(out) :
            \A r \in written :
                r.id = out[i].id => (out[i].kind = "ok" /\ out[i].bytes = r.data)

\* The exported file as export lays it out: the magic and the bucket count,
\* the directory rows after them, then the entry arrays bucket after bucket.
WrittenHeaderLen == Len(ToLE(MAGIC, 8)) + Len(ToLE(0, 8))

ExportedBuckets == FromLEFar(SubSeq(file, 9, 16))

\* Directory row b (0-based) of the exported file.
DirectoryRow(b) ==
    LET p == WrittenHeaderLen + ROW_OFFSET_SIZE * b
    IN  [bucket_offset |-> FromLEFar(SubSeq(file, p + 1, p + 8)),
         count |-> FromLEFar(SubSeq(file, p + 9, p + 12))]

\* Where the entry array of bucket b begins in the exported file.
RECURSIVE EntriesStart(_)
EntriesStart(b) ==
    IF b = 0 THEN WrittenHeaderLen + ROW_OFFSET_SIZE * ExportedBuckets
    ELSE EntriesStart(b - 1) + OffsetHeader_size * DirectoryRow(b - 1).count

\* The i-th entry of bucket b in the exported file.
BucketEntry(b, i) ==
    LET p == EntriesStart(b) + OffsetHeader_size * (i - 1)
    IN  OffsetHeader_from_buffer(SubSeq(file, p + 1, p + OffsetHeader_size))

Exported == phase \in {"exported", "open"}

\* C27: an exported table has at least one bucket; the entries of bucket b
\* are the staged records whose id is b modulo the bucket count, in ascending
\* id order, and directory row b counts them.
C27_BucketsHashedAndSorted ==
    Exported =>
        /\ ExportedBuckets >= 1
        /\ Len(file) = EntriesStart(ExportedBuckets)
        /\ \A b \in 0 .. ExportedBuckets - 1 :
               /\ DirectoryRow(b).count =
                      Cardinality({r \in written : r.id % ExportedBuckets = b})
               /\ \A i \in 1 .. DirectoryRow(b).count :
                      /\ BucketEntry(b, i).id % ExportedBuckets = b
                      /\ \E r \in written : r.id = BucketEntry(b, i).id
                      /\ i > 1 => BucketEntry(b, i - 1).id < BucketEntry(b, i).id

\* The bytes of the exported file before its directory.
HeaderLenInFile ==
    Len(file) - ROW_OFFSET_SIZE * ExportedBuckets - OffsetHeader_size * Len(tenc.vec)

\* C28: in an exported table the header takes HEADER_SIZE = 32 bytes, so the
\* directory row of bucket b is at byte 32 + 12 * b, where Decoder::query
\* sends KeyReader for it; the entry arrays follow the directory bucket after
\* bucket, and each row's bucket_offset is the byte position where the entry
\* array of its bucket begins.
C28_OffsetsPointAtBuckets ==
    Exported =>
        /\ HeaderLenInFile = HEADER_SIZE
        /\ \A b \in 0 .. ExportedBuckets - 1 :
               LET looked == HEADER_SIZE + ROW_OFFSET_SIZE * b
               IN  /\ Len(file) >= looked + ROW_OFFSET_SIZE
                   /\ SubSeq(file, looked + 1, looked + ROW_OFFSET_SIZE) =
                          ToLE(DirectoryRow(b).bucket_offset, 8)
                              \o ToLE(DirectoryRow(b).count, 4)
                   /\ DirectoryRow(b).bucket_offset = EntriesStart(b)

\* C29: a KeyReader built by query for k ids gives one result per id, in
\* query order, on its first k calls of next_reader, and None on the call
\* after; the result for an id that no record was written under is a
\* NotFound error, and the ids after it are still served.
C29_OneResultPerId ==
    kr.open =>
        LET k == Len(kr.query)
        IN  \A i \in 1 .. Len(kr.results) :
                IF i <= k
                THEN /\ kr.results[i].kind # "none"
                     /\ kr.results[i].id = kr.query[i]
                     /\ (\A r \in written : r.id # kr.query[i]) =>
                            (kr.results[i].kind = "err" /\ kr.results[i].e = "NotFound")
                ELSE kr.results[i].kind = "none"

\* Three records in two buckets, the two of one bucket staged in descending
\* id order, have been exported.
C27_Witness ==
    /\ Exported
    /\ ExportedBuckets = 2
    /\ Len(tenc.vec) = 3
    /\ \E i, j \in 1 .. 3 :
          /\ i < j
          /\ tenc.vec[i].id > tenc.vec[j].id
          /\ tenc.vec[i].id % 2 = tenc.vec[j].id % 2

(***************************************************************************)
(* Column claims                                                           *)
(***************************************************************************)
\* C14: a closed StreamColumn has had its encoder's end_stream called, and
\* its index's flush if it has an index, whatever flush returned; when both
\* failed, close returned the encoder's error.
C14_CloseFinalizesBoth ==
    col.closed =>
        /\ cenc.ended # "no"
        /\ col.index => cat.flushed # "no"
        /\ (cat.flushed = "err" /\ cenc.ended = "err") => Last(col.results).err = "encoder"

\* The 0-based row numbers at which the encoder holds value v.
RowsOf(v) == {i - 1 : i \in {j \in 1 .. Len(cenc.rows) : cenc.rows[j] = v}}

\* C15: after any pushes, failed ones included, row_pos is the number of
\* values the encoder has taken, and the positions the index holds for a
\* value are the row numbers of that value in the column.
C15_RowPosIsRowNumber ==
    /\ col.row_pos = Len(cenc.rows)
    /\ col.index => \A v \in DOMAIN cat.table : cat.table[v] = RowsOf(v)

\* The payload the table Encoder holds for its i-th entry.
PayloadOf(i) ==
    SubSeq(tenc.tmp, tenc.vec[i].offset + 1, tenc.vec[i].offset + tenc.vec[i].size)

\* C16: after a flush that returned Ok the table Encoder holds one entry per
\* distinct recorded value, keyed by into_u64(value), whose payload is the
\* serialization of that value's bitmap and nothing else.
C16_OneEntryPerValue ==
    cat.flushed = "ok" =>
        /\ Len(tenc.vec) = Cardinality(DOMAIN cat.table)
        /\ \A v \in DOMAIN cat.table :
               \E i \in 1 .. Len(tenc.vec) :
                   /\ tenc.vec[i].id = into_u64(v)
                   /\ PayloadOf(i) = RoaringBytes(cat.table[v])

\* close on a column that received no push, with no failure of the
\* directory or of the encoder.
CloseOfEmptyColumn ==
    /\ col.results = <<>>
    /\ \E order \in Orders({}) : StreamColumn_close(order, FALSE, FALSE)

\* C38: StreamColumn::close on a column that received no push returns Ok
\* and ends the stream of an encoder that holds no value, also when a
\* Categorical index is attached to the column.
C38_EmptyColumnCloses ==
    [][CloseOfEmptyColumn =>
          /\ Last(col'.results) = [call |-> "close", err |-> ""]
          /\ cenc'.ended = "ok"
          /\ cenc'.rows = <<>>]_vars

(***************************************************************************)
(* Bit codec claims                                                        *)
(***************************************************************************)
\* C25: for every type, every width w in [1, BITS(T)], 64 included, and
\* values whose codes are below 2^w, write_value at width w completes, and
\* after flush read_value at width w returns the values written, in order;
\* for every value the signed types' ZigZag satisfies decode(encode(v)) = v
\* and encode(v) < 2^BITS(T).
C25_BitRoundTrip ==
    /\ rt.stage # "panicked"
    /\ \A i \in 1 .. Len(rt.got) : rt.got[i] = [err |-> "", val |-> rt.vals[i]]
    /\ \A i \in 1 .. Len(rt.vals) :
           /\ decode(rt.t, encode(rt.t, rt.vals[i])) = rt.vals[i]
           /\ FitsWidth(rt.t, rt.vals[i], BITS(rt.t))


\* The value of vs with the largest code, and the width derived from it.
MaxByCode(t, vs) ==
    CHOOSE v \in SeqRange(vs) : \A u \in SeqRange(vs) : encode(t, u) <= encode(t, v)

DerivedWidth(t, vs) == clamp_width_to_type(t, bit_width_from_value(t, MaxByCode(t, vs)))

\* The values vs as results of an iterator.
AsResults(vs) == [i \in 1 .. Len(vs) |-> ResVal(vs[i])]

\* The unbounded stream has returned None.
StreamEnded == rt.stage = "stream" /\ rt.ended

\* C31: for values written at the width derived from the value with the
\* largest code and flushed, the unbounded BitStream::new yields exactly the
\* values written, the same as BitStream::with_count with count = |vs|.
C31_UnboundedYieldsWritten ==
    (StreamEnded /\ rt.width = DerivedWidth(rt.t, rt.vals)) =>
        /\ rt.all = AsResults(rt.vals)
        /\ rt.all = Collect(rt.t, BitStream_with_count(rt.writer.out, rt.width,
                                                       Len(rt.vals)))

(***************************************************************************)
(* Page claims on append_slice                                             *)
(***************************************************************************)
\* The step is an append_slice call.
IsAppend == sp'.calls = sp.calls + 1 /\ sp'.last.op = "append_slice"

\* C30: append_slice appends the data when len + data.len() is at most the
\* capacity; otherwise it returns CapacityError and leaves the contents, the
\* length and the capacity of the page as they were.  In neither case does
\* the capacity of the buffer change.
C30_AppendWithinCapacity ==
    [][IsAppend =>
          /\ sp'.page.cap = sp.page.cap
          /\ sp'.page.id = sp.page.id
          /\ IF Len(sp.buf) + Len(sp'.last.data) <= sp.page.cap
             THEN /\ sp'.last.err = ""
                  /\ sp'.buf = sp.buf \o sp'.last.data
                  /\ sp'.page.len = sp.page.len + Len(sp'.last.data)
             ELSE /\ sp'.last.err = "CapacityError"
                  /\ sp'.buf = sp.buf
                  /\ sp'.page = sp.page]_vars

\* An append was refused on a page that holds earlier appended bytes and has
\* room left, but less than the slice needs.
C30_Witness ==
    /\ sp.last.op = "append_slice"
    /\ sp.last.err = "CapacityError"
    /\ 0 < Len(sp.buf)
    /\ Len(sp.buf) < sp.page.cap
    /\ sp.page.len = Len(sp.buf)

(***************************************************************************)
(* Document claims                                                         *)
(***************************************************************************)
\* q occurs in tokens at consecutive positions.
Occurs(tokens, q) ==
    \E i \in 0 .. Len(tokens) - Len(q) : \A k \in 1 .. Len(q) : tokens[i + k] = q[k]

SeekTarget(arg, size, pos0) ==
    IF arg.from = "Start" THEN arg.p
    ELSE IF arg.from = "End" THEN size + arg.p ELSE pos0 + arg.p

\* C34: after any sequence of read and seek calls on a FileSlice of size s
\* the relative position is within [0, s], a read returns bytes of
\* [offset, offset + s) of the inner source, those at the position the read
\* began at, and a seek whose target lies outside [0, s] returns InvalidInput
\* and leaves the position unchanged.
C34_SliceStaysInBounds ==
    LET s == fsl.slice
        l == fsl.last
    IN  fsl.calls > 0 =>
            /\ 0 <= s.current_pos /\ s.current_pos <= s.size
            /\ l.op = "read" =>
                   /\ l.pos0 + Len(l.data) <= s.size
                   /\ l.data = SubSeq(s.src, s.start_offset + l.pos0 + 1,
                                      s.start_offset + l.pos0 + Len(l.data))
            /\ (/\ l.op = "seek"
                /\ (SeekTarget(l.arg, s.size, l.pos0) < 0
                    \/ SeekTarget(l.arg, s.size, l.pos0) > s.size)) =>
                   /\ l.err = "InvalidInput"
                   /\ s.current_pos = l.pos0

\* The last read of slice i returned the bytes of its own section at the
\* position the read began at, as many as the buffer and the section allow.
ReadOwnSection(i) ==
    LET s == sl.slices[i]
        l == s.last
    IN  (l.op = "read" /\ s.pc = "idle") =>
            /\ l.data = SubSeq(sl.src, s.start_offset + l.pos0 + 1,
                               s.start_offset + l.pos0 + Len(l.data))
            /\ l.pos0 + Len(l.data) <= Max2(s.size, l.pos0)
            /\ s.current_pos = l.pos0 + Len(l.data)
            /\ (l.pos0 < s.size) => Len(l.data) > 0

\* A step in which slice i acts leaves the position of every other slice.
OthersKeepPosition ==
    \A i, j \in SliceHandles :
        (i # j /\ sl'.slices[i] # sl.slices[i]) =>
            sl'.slices[j].current_pos = sl.slices[j].current_pos

\* C33: for any interleaving of reads and seeks on several SectionedSlices
\* of one FileSlicer, from different threads, every read returns only bytes
\* of the slice's own section, in order from the slice's own position, and
\* no operation on a slice changes the position of another slice.
C33_SlicesAreIsolated ==
    /\ [](\A i \in SliceHandles : ReadOwnSection(i))
    /\ [][OthersKeepPosition]_vars

\* Slice 1 has read on from where its earlier read stopped, and slice 2, a
\* slice of another section, has read bytes through the same source.
C33_Witness ==
    /\ sl.slices[1].last.op = "read"
    /\ sl.slices[1].last.pos0 > 0
    /\ Len(sl.slices[1].last.data) > 0
    /\ sl.slices[2].last.op = "read"
    /\ Len(sl.slices[2].last.data) > 0
    /\ sl.slices[1].start_offset # sl.slices[2].start_offset

(***************************************************************************)
(* Footer file claims                                                      *)
(***************************************************************************)
\* The extents follow one another from offset 0 without gap or overlap.
Contiguous(columns) ==
    \A k \in 1 .. Len(columns) :
        columns[k].offset = IF k = 1 THEN 0 ELSE columns[k - 1].offset + columns[k - 1].size

\* C35: after write for any number of columns with distinct ids and one
\* close, the decoder's footer records the columns in write order with
\* contiguous extents that do not overlap, and get_column(id) followed by
\* read_to_end returns exactly the bytes written for that id.
C35_ColumnsReadBack ==
    ff.opened =>
        /\ Len(ff.footer) = Len(ff.writes)
        /\ \A k \in 1 .. Len(ff.writes) :
               /\ ff.footer[k].id = ff.writes[k].id
               /\ ff.footer[k].size = Len(ff.writes[k].data)
        /\ Contiguous(ff.footer)
        /\ ff.last.op = "get_column" =>
               \A k \in 1 .. Len(ff.writes) :
                   ff.writes[k].id = ff.last.id =>
                       (ff.last.err = "" /\ ff.last.data = ff.writes[k].data)

\* The second of two columns that hold bytes was read back.
C35_Witness ==
    /\ ff.opened
    /\ Len(ff.writes) = 2
    /\ Len(ff.writes[1].data) > 1
    /\ Len(ff.writes[2].data) > 2
    /\ ff.last.op = "get_column"
    /\ ff.last.id = ff.writes[2].id
    /\ ff.last.data = ff.writes[2].data

(***************************************************************************)
(* Legacy pool claims                                                      *)
(***************************************************************************)
\* The capacities of the buffers cached in the buckets, bucket by bucket.
RECURSIVE CachedFrom(_, _)
CachedFrom(p, i) ==
    IF i > BufferPoolEntry_bucket_index(MAX_BUCKET) THEN <<>>
    ELSE p.buckets[i] \o CachedFrom(p, i + 1)

CachedCaps(p) == CachedFrom(p, 0)

\* C39: with no page held and a single buffer cached, after get(n) and drop
\* and after any further get(n)/drop cycles, bytes_in_pool() equals the
\* capacity of the cached buffer: each buffer's bytes are counted once.
C39_BytesCountedOnce ==
    (lp.held = <<>> /\ Len(CachedCaps(lp.pool)) = 1) =>
        lp.pool.current_bytes = CachedCaps(lp.pool)[1]

====
